---- MODULE Spec2Model ----
(***************************************************************************)
(* Outfnd: product-image discovery, de-duplication, clustering and the     *)
(* three-bucket partition of the selectProductImages cloud operation.      *)
(*                                                                         *)
(* Strings are tuples of one-character strings, so that the regular        *)
(* expressions and substring tests of the source can be computed.          *)
(***************************************************************************)
EXTENDS Integers, Sequences, FiniteSets, TLC

VARIABLES
    npc,        \* normalizeForDedupe: "idle" before the call, "done" after it
    normIn,     \* normalizeForDedupe: the argument of the call
    normOut,    \* normalizeForDedupe: the returned string
    fpc,        \* finalizeImageCandidates: "idle", "done", "again"
    fCands,     \* finalizeImageCandidates: the candidate list of the call
    fMax,       \* finalizeImageCandidates: the cap of the call
    fOut,       \* finalizeImageCandidates: the returned URL list
    fAgain,     \* finalizeImageCandidates run on the URLs of fOut
    cpc,        \* selectPrimaryProductImages: "idle", "done"
    cCands,     \* selectPrimaryProductImages: allCandidates
    cAnchors,   \* selectPrimaryProductImages: anchors
    cMax,       \* selectPrimaryProductImages: max
    cOut,       \* selectPrimaryProductImages: the returned URL list
    spc,        \* selectProductImages: where the call stands, "idle" to "done"
    sPayload,   \* selectProductImages: payload.anchors and the URLs of payload.candidates
    sAnchors,   \* selectProductImages: anchors, the first three of payload.anchors
    sNext,      \* selectProductImages: index of the anchor whose features are fetched next
    sAnchorFeatures,  \* selectProductImages: anchorFeatures
    sPending,   \* selectProductImages: indices of the candidate fetches in flight
    sEnriched,  \* selectProductImages: the entries of enriched resolved so far
    sGroups,    \* selectProductImages: groups, the rule-based seeding
    sLlm,       \* selectProductImages: llmGroups and whether the classifier call failed
    sReturn,    \* selectProductImages: the returned groups and the debug promotions
    kpc,        \* extractProductKeyFromUrl: "idle", "done"
    keyIn,      \* extractProductKeyFromUrl: u
    keyOut,     \* extractProductKeyFromUrl: the returned key, NoStr for null
    hpc,        \* hamming: "idle", "done"
    hamIn,      \* hamming: the two hashes hexA and hexB
    hamOut,     \* hamming: the results of hamming(a, b), hamming(b, a) and hamming(a, a)
    rpc,        \* seeding rules: "idle", "done"
    seedIn,     \* seeding rules: one entry e of enriched
    seedOut,    \* seeding rules: which rules e satisfies and the bucket it is pushed to
    scpc,       \* scoreImageCandidate: "idle", "once", "twice"
    scoreIn,    \* scoreImageCandidate: the candidate as the caller built it
    scoreArg,   \* scoreImageCandidate: the argument c as it is after the calls
    scoreOut,   \* scoreImageCandidate: the scores returned so far, in call order
    clpc,       \* clipCurrentDocument: "idle", "done"
    clipIn,     \* clipCurrentDocument: what extractFromJsonLd and extractFromDom did
    clipOut,    \* clipCurrentDocument: how the returned promise settled
    gpc,        \* generateContentWithFallback: "idle", "trying", "returned", "threw"
    gRequested, \* requestedModel and kind of the call
    gModels,    \* tryModels
    gApi,       \* index of apiVersion in API_VERSION_ORDER
    gModel,     \* index of model in tryModels
    gTried,     \* the attempts made, each with its outcome, in order
    gEnd,       \* what the call returned or threw
    pvpc,       \* renderLookPreviews: "idle", "mannequin", "rendering", "cleared", "failed"
    looks,      \* the ids of the looks to render, in list order
    nextLook,   \* i, the index the workers share (0-based)
    workers,    \* per worker: where it is and the look it holds
    previewMap, \* the React state previewMap: look id -> LookPreview
    previewNote, \* the React state previewNote
    rendered,   \* the calls of renderOneLook made, in order
    previewLog, \* per look id, the preview states it was given, in order
    tab         \* the pure functions of a URL or a candidate, evaluated once per URL

normVars == <<npc, normIn, normOut>>
finalVars == <<fpc, fCands, fMax, fOut, fAgain>>
clusterVars == <<cpc, cCands, cAnchors, cMax, cOut>>
selectVars == <<spc, sPayload, sAnchors, sNext, sAnchorFeatures, sPending, sEnriched,
                sGroups, sLlm, sReturn>>
keyVars == <<kpc, keyIn, keyOut>>
hammingVars == <<hpc, hamIn, hamOut>>
seedVars == <<rpc, seedIn, seedOut>>
scoreVars == <<scpc, scoreIn, scoreArg, scoreOut>>
clipVars == <<clpc, clipIn, clipOut>>
genVars == <<gpc, gRequested, gModels, gApi, gModel, gTried, gEnd>>
previewVars == <<pvpc, looks, nextLook, workers, previewMap, previewNote, rendered, previewLog>>
vars == <<npc, normIn, normOut, fpc, fCands, fMax, fOut, fAgain,
          cpc, cCands, cAnchors, cMax, cOut,
          spc, sPayload, sAnchors, sNext, sAnchorFeatures, sPending, sEnriched,
          sGroups, sLlm, sReturn,
          kpc, keyIn, keyOut,
          hpc, hamIn, hamOut,
          rpc, seedIn, seedOut,
          scpc, scoreIn, scoreArg, scoreOut,
          clpc, clipIn, clipOut,
          gpc, gRequested, gModels, gApi, gModel, gTried, gEnd,
          pvpc, looks, nextLook, workers, previewMap, previewNote, rendered, previewLog, tab>>

\* an absent optional string (undefined, null) is the empty string and an absent
\* number is 0: the source tests them only for truthiness
NoStr == <<>>

(***************************************************************************)
(* Bounds of the model                                                     *)
(***************************************************************************)
MaxParams == 2      \* query parameters of a normalised URL
MaxFinal == 2       \* candidates of one finalizeImageCandidates call
MaxCluster == 3     \* candidates of one selectPrimaryProductImages call
MaxCandidates == 2  \* candidates of one selectProductImages request
MaxListed == 1      \* URLs per bucket of one classifier reply
MaxSegs == 2        \* path segments of a URL whose product key is extracted

(***************************************************************************)
(* String helpers (String.prototype / RegExp primitives)                   *)
(***************************************************************************)
UpperAZ == <<"A", "B", "C", "D", "E", "F", "G", "H", "I", "J", "K", "L", "M", "N", "O", "P", "Q", "R", "S", "T", "U", "V", "W", "X", "Y", "Z">>
LowerAZ == <<"a", "b", "c", "d", "e", "f", "g", "h", "i", "j", "k", "l", "m", "n", "o", "p", "q", "r", "s", "t", "u", "v", "w", "x", "y", "z">>
Digits == {"0", "1", "2", "3", "4", "5", "6", "7", "8", "9"}

toLowerChar(c) ==
    IF \E i \in 1..Len(UpperAZ) : UpperAZ[i] = c
    THEN LowerAZ[CHOOSE i \in 1..Len(UpperAZ) : UpperAZ[i] = c]
    ELSE c

toLowerCase(s) == [i \in 1..Len(s) |-> toLowerChar(s[i])]

startsAt(s, pat, i) ==
    /\ i >= 1
    /\ i + Len(pat) - 1 <= Len(s)
    /\ SubSeq(s, i, i + Len(pat) - 1) = pat

includes(s, pat) == \E i \in 1..Len(s) : startsAt(s, pat, i)

\* index of the first occurrence of pat in s, 0 when there is none
indexOf(s, pat) ==
    IF includes(s, pat)
    THEN CHOOSE i \in 1..Len(s) :
            startsAt(s, pat, i) /\ \A j \in 1..(i - 1) : ~startsAt(s, pat, j)
    ELSE 0

RECURSIVE split(_, _)
\* s.split(sep) for a one-character separator
split(s, sep) ==
    LET i == indexOf(s, <<sep>>)
    IN  IF i = 0 THEN <<s>>
        ELSE <<SubSeq(s, 1, i - 1)>> \o split(SubSeq(s, i + 1, Len(s)), sep)

Range(s) == {s[i] : i \in 1..Len(s)}

RECURSIVE concatAll(_)
concatAll(ss) == IF ss = <<>> THEN <<>> ELSE Head(ss) \o concatAll(Tail(ss))

RECURSIVE join(_, _)
join(ss, sep) ==
    IF ss = <<>> THEN <<>>
    ELSE IF Len(ss) = 1 THEN Head(ss)
    ELSE Head(ss) \o sep \o join(Tail(ss), sep)

(***************************************************************************)
(* URL and URLSearchParams (WHATWG), as far as the source uses them.       *)
(* The inputs are absolute https URLs in normal form (lower-case host,     *)
(* non-empty path), so new URL(u).href = u.                                *)
(***************************************************************************)
Scheme == <<"h", "t", "t", "p", "s", ":", "/", "/">>

\* new URL(u): href split into origin+path, search (without "?") and hash (without "#")
ParseURL(u) ==
    LET h == indexOf(u, <<"#">>)
        noHash == IF h = 0 THEN u ELSE SubSeq(u, 1, h - 1)
        q == indexOf(noHash, <<"?">>)
        base == IF q = 0 THEN noHash ELSE SubSeq(noHash, 1, q - 1)
        rest == SubSeq(base, Len(Scheme) + 1, Len(base))
        sl == indexOf(rest, <<"/">>)
    IN  [ base     |-> base,
          hostname |-> IF sl = 0 THEN rest ELSE SubSeq(rest, 1, sl - 1),
          pathname |-> IF sl = 0 THEN <<"/">> ELSE SubSeq(rest, sl, Len(rest)),
          search   |-> IF q = 0 THEN <<>> ELSE SubSeq(noHash, q + 1, Len(noHash)),
          hash     |-> IF h = 0 THEN <<>> ELSE SubSeq(u, h + 1, Len(u)) ]

\* application/x-www-form-urlencoded decoding of one name or value:
\* "+" is a space, %XX is the byte XX (the escapes the inputs use)
RECURSIVE formDecode(_)
formDecode(s) ==
    IF s = <<>> THEN <<>>
    ELSE IF Head(s) = "+" THEN <<" ">> \o formDecode(Tail(s))
    ELSE IF startsAt(s, <<"%", "2", "0">>, 1) THEN <<" ">> \o formDecode(SubSeq(s, 4, Len(s)))
    ELSE IF startsAt(s, <<"%", "2", "B">>, 1) THEN <<"+">> \o formDecode(SubSeq(s, 4, Len(s)))
    ELSE <<Head(s)>> \o formDecode(Tail(s))

\* application/x-www-form-urlencoded serialisation of one name or value
RECURSIVE formEncode(_)
formEncode(s) ==
    IF s = <<>> THEN <<>>
    ELSE IF Head(s) = " " THEN <<"+">> \o formEncode(Tail(s))
    ELSE IF Head(s) = "+" THEN <<"%", "2", "B">> \o formEncode(Tail(s))
    ELSE <<Head(s)>> \o formEncode(Tail(s))

\* one "name=value" piece of a query string
ParsePair(piece) ==
    LET e == indexOf(piece, <<"=">>)
    IN  IF e = 0 THEN [k |-> formDecode(piece), v |-> <<>>]
        ELSE [k |-> formDecode(SubSeq(piece, 1, e - 1)),
              v |-> formDecode(SubSeq(piece, e + 1, Len(piece)))]

\* url.searchParams: the list of decoded (name, value) pairs, in order
searchParams(search) ==
    LET pieces == SelectSeq(split(search, "&"), LAMBDA p : p # <<>>)
    IN  [i \in 1..Len(pieces) |-> ParsePair(pieces[i])]

\* URLSearchParams.prototype.get: the value of the first pair named k, or NoStr (null)
paramsGet(ps, k) ==
    IF \E i \in 1..Len(ps) : ps[i].k = k
    THEN ps[CHOOSE i \in 1..Len(ps) :
                ps[i].k = k /\ \A j \in 1..(i - 1) : ps[j].k # k].v
    ELSE NoStr

\* URLSearchParams.prototype.append would keep every pair
paramsAppend(ps, k, v) == Append(ps, [k |-> k, v |-> v])

\* URLSearchParams.prototype.set: the first pair named k gets the value and the
\* other pairs named k are removed; a new name is appended
paramsSet(ps, k, v) ==
    IF \E i \in 1..Len(ps) : ps[i].k = k
    THEN LET f == CHOOSE i \in 1..Len(ps) :
                    ps[i].k = k /\ \A j \in 1..(i - 1) : ps[j].k # k
             upd == [ps EXCEPT ![f] = [k |-> k, v |-> v]]
             keep == {i \in 1..Len(ps) : i = f \/ ps[i].k # k}
             RECURSIVE pick(_)
             pick(i) == IF i > Len(ps) THEN <<>>
                        ELSE (IF i \in keep THEN <<upd[i]>> ELSE <<>>) \o pick(i + 1)
         IN  pick(1)
    ELSE Append(ps, [k |-> k, v |-> v])

\* URLSearchParams.prototype.toString
paramsToString(ps) ==
    join([i \in 1..Len(ps) |-> formEncode(ps[i].k) \o <<"=">> \o formEncode(ps[i].v)], <<"&">>)

(***************************************************************************)
(* normalizeForDedupe                                                      *)
(***************************************************************************)
drop == { <<"w">>, <<"h">>, <<"w", "i", "d", "t", "h">>, <<"h", "e", "i", "g", "h", "t">>, <<"q">>, <<"q", "u", "a", "l", "i", "t", "y">>, <<"a", "u", "t", "o">>,
          <<"f", "i", "t">>, <<"c", "r", "o", "p">>, <<"f", "o", "r", "m", "a", "t">>, <<"f", "m">>, <<"b", "g">>, <<"d", "p", "r">>, <<"i", "m", "w", "i", "d", "t", "h">>,
          <<"w", "i", "d">>, <<"h", "e", "i">>, <<"r", "e", "s", "m", "o", "d", "e">>, <<"r", "e", "s">>, <<"s", "i", "z", "e">> }

dropped(p) == toLowerCase(p.k) \in drop

RECURSIVE keptParams(_, _)
\* url.searchParams.forEach((v, k) => { if (!drop.has(k.toLowerCase())) next.set(k, v) })
keptParams(ps, next) ==
    IF ps = <<>> THEN next
    ELSE keptParams(Tail(ps),
                    IF dropped(Head(ps)) THEN next
                    ELSE paramsSet(next, Head(ps).k, Head(ps).v))

normalizeForDedupe(u) ==
    LET url == ParseURL(u)
        next == keptParams(searchParams(url.search), <<>>)
        qs == paramsToString(next)
    IN  url.base \o (IF qs # <<>> THEN <<"?">> \o qs ELSE <<>>)

(***************************************************************************)
(* Inputs of the normalisation: one image path, every query string of at   *)
(* most MaxParams pairs over the names and values below, with or without   *)
(* a fragment.                                                             *)
(***************************************************************************)
ShirtBase == <<"h", "t", "t", "p", "s", ":", "/", "/", "s", "i", "t", "e", ".", "c", "o", "m", "/", "i", "m", "g", "/", "s", "h", "i", "r", "t", ".", "j", "p", "g">>
ParamNames == { <<"w">>, <<"Q">>, <<"i", "d">>, <<"v">> }
ParamValues == { <<"1">>, <<"2">>, <<"a", "%", "2", "0", "b">> }
RawPairs == {n \o <<"=">> \o v : n \in ParamNames, v \in ParamValues}
RawQueries == UNION {[1..n -> RawPairs] : n \in 0..MaxParams}
Fragments == { <<>>, <<"#", "t", "o", "p">> }
NormInputs ==
    {ShirtBase \o (IF q = <<>> THEN <<>> ELSE <<"?">> \o join(q, <<"&">>)) \o f :
        q \in RawQueries, f \in Fragments}

(***************************************************************************)
(* Image filter and scoring (imageFilter)                                  *)
(***************************************************************************)
Min(a, b) == IF a <= b THEN a ELSE b
Max(a, b) == IF a >= b THEN a ELSE b

hasAny(hay, keys) == \E k \in keys : includes(toLowerCase(hay), k)

\* /-p(?:\.|\/|-)/ and /-e(?:\.|\/|-)/
hasSuffixToken(s, letter) ==
    \E t \in {".", "/", "-"} : includes(s, <<"-", letter, t>>)

productLikePath(url) ==
    LET p == toLowerCase(url)
    IN    (IF hasSuffixToken(p, "p") THEN 300 ELSE 0)
        + (IF hasAny(p, { <<"p", "a", "c", "k", "s", "h", "o", "t">>, <<"p", "r", "o", "d", "u", "c", "t">>, <<"/", "p", "/">>, <<"/", "p", "r", "o", "d", "/">>, <<"/", "p", "r", "o", "d", "u", "c", "t", "s", "/">> }) THEN 250 ELSE 0)
        + (IF hasAny(p, { <<"s", "t", "i", "l", "l">>, <<"s", "t", "u", "d", "i", "o">>, <<"c", "u", "t", "o", "u", "t">>, <<"i", "s", "o", "l", "a", "t", "e", "d">>, <<"i", "s", "o", "l", "a", "t", "i", "o", "n">> }) THEN 180 ELSE 0)
        + (IF hasAny(p, { <<"f", "r", "o", "n", "t">>, <<"b", "a", "c", "k">>, <<"s", "i", "d", "e">>, <<"d", "e", "t", "a", "i", "l">>, <<"f", "l", "a", "t">>, <<"l", "a", "y">> }) THEN 120 ELSE 0)
        - (IF hasSuffixToken(p, "e") THEN 250 ELSE 0)
        - (IF hasAny(p, { <<"l", "o", "o", "k">>, <<"o", "u", "t", "f", "i", "t">>, <<"e", "d", "i", "t", "o", "r", "i", "a", "l">>, <<"c", "a", "m", "p", "a", "i", "g", "n">>, <<"l", "i", "f", "e", "s", "t", "y", "l", "e">> }) THEN 200 ELSE 0)
        - (IF hasAny(p, { <<"m", "o", "d", "e", "l">>, <<"c", "a", "t", "w", "a", "l", "k">>, <<"r", "u", "n", "w", "a", "y">> }) THEN 160 ELSE 0)
        - (IF hasAny(p, { <<"/", "v", "i", "d", "e", "o">>, <<".", "m", "p", "4">>, <<".", "w", "e", "b", "m">> }) THEN 400 ELSE 0)

productLikeAlt(alt) ==
    IF alt = NoStr THEN 0
    ELSE  (IF hasAny(alt, { <<"f", "r", "o", "n", "t">>, <<"b", "a", "c", "k">>, <<"s", "i", "d", "e">>, <<"d", "e", "t", "a", "i", "l">>, <<"p", "r", "o", "d", "u", "c", "t">> }) THEN 80 ELSE 0)
        + (IF hasAny(alt, { <<"f", "l", "a", "t">>, <<"l", "a", "y">>, <<"p", "a", "c", "k", "s", "h", "o", "t">>, <<"s", "t", "i", "l", "l">> }) THEN 120 ELSE 0)
        - (IF hasAny(alt, { <<"m", "o", "d", "e", "l">>, <<"o", "n", " ", "m", "o", "d", "e", "l">>, <<"w", "o", "r", "n">> }) THEN 120 ELSE 0)
        - (IF hasAny(alt, { <<"l", "o", "o", "k">>, <<"o", "u", "t", "f", "i", "t">> }) THEN 80 ELSE 0)

productLikeClass(cls) ==
    IF cls = NoStr THEN 0
    ELSE  (IF hasAny(cls, { <<"p", "r", "o", "d", "u", "c", "t">>, <<"g", "a", "l", "l", "e", "r", "y">>, <<"p", "a", "c", "k", "s", "h", "o", "t">>, <<"s", "t", "i", "l", "l">>, <<"d", "e", "t", "a", "i", "l">> }) THEN 60 ELSE 0)
        - (IF hasAny(cls, { <<"e", "d", "i", "t", "o", "r", "i", "a", "l">>, <<"l", "o", "o", "k">>, <<"o", "u", "t", "f", "i", "t">>, <<"c", "a", "m", "p", "a", "i", "g", "n">>, <<"m", "o", "d", "e", "l">> }) THEN 120 ELSE 0)

DigitValue(c) == CHOOSE n \in 0..9 : <<"0", "1", "2", "3", "4", "5", "6", "7", "8", "9">>[n + 1] = c

RECURSIVE parseDigits(_, _)
parseDigits(s, acc) ==
    IF s = <<>> \/ Head(s) \notin Digits THEN acc
    ELSE parseDigits(Tail(s), 10 * acc + DigitValue(Head(s)))

\* parseInt(s, 10) || 0 for an unsigned string: the leading digits, 0 when there are none
parseIntOr0(s) == parseDigits(s, 0)

\* a || b || c || d || "" over URLSearchParams.get results (null and "" are falsy)
firstTruthy(vals) ==
    IF \E i \in 1..Len(vals) : vals[i] # NoStr
    THEN vals[CHOOSE i \in 1..Len(vals) :
                vals[i] # NoStr /\ \A j \in 1..(i - 1) : vals[j] = NoStr]
    ELSE NoStr

\* Math.min(w, 2400) / 4 is exact for the widths of the model (multiples of 4)
preferHighRes(url) ==
    LET ps == searchParams(ParseURL(url).search)
        w == parseIntOr0(firstTruthy(<<paramsGet(ps, <<"w">>), paramsGet(ps, <<"w", "i", "d", "t", "h">>),
                                       paramsGet(ps, <<"i", "m", "w", "i", "d", "t", "h">>), paramsGet(ps, <<"w", "i", "d">>)>>))
    IN  IF w # 0 THEN Min(w, 2400) \div 4
        ELSE IF \/ includes(toLowerCase(url), <<"/", "p", "/">>)
                \/ hasAny(url, { <<"p", "r", "o", "d", "u", "c", "t">>, <<"c", "a", "t", "a", "l", "o", "g">>, <<"a", "s", "s", "e", "t", "s">>, <<"i", "m", "a", "g", "e", "s">> })
             THEN 100
             ELSE 40

\* a score that also depends on how many calls were made before
scoreImageCandidate_counting(c) ==
      productLikePath(c.url)
    + productLikeAlt(c.alt)
    + productLikeClass(c.classList)
    + (IF c.origin \in {"img", "source"} THEN 20 ELSE 0)
    - (IF c.origin \in {"bg", "a"} THEN 10 ELSE 0)
    + (IF c.area # 0 /\ c.area > 0
       THEN Min(200, c.area \div 4000)
       ELSE preferHighRes(c.url))
    + Len(scoreOut)

scoreImageCandidate(c) ==
      productLikePath(c.url)
    + productLikeAlt(c.alt)
    + productLikeClass(c.classList)
    + (IF c.origin \in {"img", "source"} THEN 20 ELSE 0)
    - (IF c.origin \in {"bg", "a"} THEN 10 ELSE 0)
    + (IF c.area # 0 /\ c.area > 0
       THEN Min(200, c.area \div 4000)
       ELSE preferHighRes(c.url))

\* Array.prototype.sort (stable): before[i, j] is "compare(s[i], s[j]) < 0"; an
\* element is inserted before the first element it strictly precedes
sortStable(s, before) ==
    LET RECURSIVE ins(_, _)
        ins(r, i) ==
            IF r = <<>> THEN <<i>>
            ELSE IF before[i, Head(r)] THEN <<i>> \o r
            ELSE <<Head(r)>> \o ins(Tail(r), i)
        RECURSIVE srt(_)
        srt(n) == IF n = 0 THEN <<>> ELSE ins(srt(n - 1), n)
        at == srt(Len(s))
    IN  [k \in 1..Len(s) |-> s[at[k]]]

\* Array.prototype.slice(0, n)
take(s, n) == SubSeq(s, 1, Min(Max(n, 0), Len(s)))

(***************************************************************************)
(* Image clustering (imageCluster)                                         *)
(***************************************************************************)
isDigit(c) == c \in Digits
isAlnum(c) == isDigit(c) \/ \E i \in 1..Len(LowerAZ) : LowerAZ[i] = c \/ UpperAZ[i] = c

\* the maximal runs of characters of s that satisfy ok, as <<first, last>> pairs in order
runsOf(s, ok) ==
    LET starts == {i \in 1..Len(s) : s[i] \in ok /\ (i = 1 \/ s[i - 1] \notin ok)}
        endOf(i) == CHOOSE e \in i..Len(s) :
                        /\ \A k \in i..e : s[k] \in ok
                        /\ (e = Len(s) \/ s[e + 1] \notin ok)
        RECURSIVE from(_)
        from(i) == IF i > Len(s) THEN <<>>
                   ELSE IF i \in starts THEN <<(<<i, endOf(i)>>)>> \o from(endOf(i) + 1)
                   ELSE from(i + 1)
    IN  from(1)

\* s.match(/\d{6,}/g) ?? []: the maximal digit runs of six or more digits
longDigitRuns(s) ==
    LET runs == SelectSeq(runsOf(s, Digits), LAMBDA r : r[2] - r[1] + 1 >= 6)
    IN  [i \in 1..Len(runs) |-> SubSeq(s, runs[i][1], runs[i][2])]

Separators == {"/", ".", "_", "-"}

\* urlTokens: the path split at / . _ - plus the long digit runs, as a set
urlTokens(u) ==
    LET base == toLowerCase(ParseURL(u).pathname)
        parts == runsOf(base, Range(base) \ Separators)
    IN  {SubSeq(base, parts[i][1], parts[i][2]) : i \in 1..Len(parts)}
            \cup Range(longDigitRuns(base))

\* similarities are counted in units of 1/SimUnit, which every union size of the
\* model's token sets divides
SimUnit == 8 * 9 * 5 * 7 * 11

jaccard(a, b) ==
    IF a = {} \/ b = {} THEN 0
    ELSE LET inter == Cardinality(a \cap b)
         IN  (inter * SimUnit) \div (Cardinality(a) + Cardinality(b) - inter)

\* s.replace(/\.[a-z0-9]+$/i, ""): a final ".ext" of letters and digits is removed
stripExtension(s) ==
    LET dots == {i \in 1..Len(s) : s[i] = "."
                    /\ i < Len(s) /\ \A k \in (i + 1)..Len(s) : isAlnum(s[k])}
    IN  IF dots = {} THEN s
        ELSE SubSeq(s, 1, (CHOOSE i \in dots : \A j \in dots : i <= j) - 1)

\* p.match(/(\d{6,})[-_](?:p|e)(?:[./_-]|$)/i): the digit runs of six or more
\* digits that are followed by - or _, p or e, and a separator or the end
skuRuns(p) ==
    SelectSeq(SelectSeq(runsOf(p, Digits), LAMBDA r : r[2] - r[1] + 1 >= 6),
              LAMBDA r :
                /\ r[2] + 2 <= Len(p)
                /\ p[r[2] + 1] \in {"-", "_"}
                /\ p[r[2] + 2] \in {"p", "e"}
                /\ (r[2] + 2 = Len(p) \/ p[r[2] + 3] \in {".", "/", "_", "-"}))

\* extractProductKeyFromUrl with the first two rules in the other order
extractProductKeyFromUrl_longestFirst(u) ==
    LET p == toLowerCase(ParseURL(u).pathname)
        mSku == skuRuns(p)
        found == longDigitRuns(p)
        runs == sortStable(found, [i, j \in 1..Len(found) |-> Len(found[j]) - Len(found[i]) < 0])
    IN  IF runs # <<>> THEN runs[1]
        ELSE IF mSku # <<>> THEN SubSeq(p, mSku[1][1], mSku[1][2])
        ELSE NoStr

\* extractProductKeyFromUrl; NoStr is null
extractProductKeyFromUrl(u) ==
    LET p == toLowerCase(ParseURL(u).pathname)
        mSku == skuRuns(p)
        found == longDigitRuns(p)
        runs == sortStable(found, [i, j \in 1..Len(found) |-> Len(found[j]) - Len(found[i]) < 0])
        segs == SelectSeq(split(p, "/"), LAMBDA x : x # <<>>)
        last == stripExtension(segs[Len(segs)])
        prev == IF Len(segs) >= 2 THEN stripExtension(segs[Len(segs) - 1]) ELSE NoStr
    IN  IF mSku # <<>> THEN SubSeq(p, mSku[1][1], mSku[1][2])
        ELSE IF runs # <<>> THEN runs[1]
        ELSE IF segs # <<>>
             THEN join(SelectSeq(<<prev, last>>, LAMBDA x : x # NoStr), <<":">>)
             ELSE NoStr

NoKey == <<"_", "_", "n", "o", "k", "e", "y", "_", "_">>

\* /-p(?:\.|\/|-)/i.test(url)
isPackshotUrl(url) == hasSuffixToken(toLowerCase(url), "p")

(***************************************************************************)
(* URLs and candidates of the model (client side)                          *)
(***************************************************************************)
DefaultMax == 24

ShirtW400Q == "https://site.com/img/shirt.jpg?w=400&q=80"
ShirtW1600 == "https://site.com/img/shirt.jpg?w=1600&format=webp"
ShirtW400 == "https://site.com/img/shirt.jpg?w=400"
HatLook == "https://site.com/look/hat.jpg"
CapLook == "https://site.com/look/cap.jpg"
HatProduct == "https://site.com/products/hat-p.jpg?v=2"

FinalUrls == {ShirtW400Q, ShirtW1600, ShirtW400, HatLook, CapLook, HatProduct}

ImageCandidate(url, origin, alt, classList, area) ==
    [url |-> url, origin |-> origin, alt |-> alt, classList |-> classList, area |-> area]

\* { url } alone, as a caller builds a candidate from a bare URL
urlOnly(u) == ImageCandidate(u, "none", NoStr, NoStr, 0)

FinalCands ==
    {ImageCandidate(u, "img", d[1], NoStr, d[2]) :
        u \in FinalUrls,
        d \in {<<NoStr, 0>>, <<<<"p", "a", "c", "k", "s", "h", "o", "t", " ", "f", "l", "a", "t">>, 0>>, <<<<"o", "n", " ", "m", "o", "d", "e", "l">>, 0>>, <<NoStr, 1200000>>}}
    \cup {urlOnly(u) : u \in FinalUrls}

\* URLs and candidates of the image clustering
SkuP == "https://cdn.shop.com/products/111111-p/111111-p.jpg"
SkuLook == "https://cdn.shop.com/look/111111-e1.jpg"
OtherFront == "https://cdn.shop.com/products/studio/222222-p/front.jpg"
OtherBack == "https://cdn.shop.com/products/studio/222222-p/back.jpg"
QueryImg == "https://img.shop.com/?id=7"
NoKeyPath == "https://img.shop.com/__nokey__"
QueryStudio == "https://img.shop.com/?src=/products/studio/front.jpg&w=2400"

ClusterUrls ==
    {SkuP, SkuLook, OtherFront, OtherBack, QueryImg, NoKeyPath, QueryStudio, ShirtW400, ShirtW1600}
ClusterCands ==
    {ImageCandidate(u, "img", NoStr, NoStr, 0) : u \in ClusterUrls}
    \cup {ImageCandidate(u, "img", NoStr, NoStr, 1200000) : u \in {OtherFront, OtherBack}}

\* URLs of the server operation: an anchor that is no candidate, an editorial
\* image, a URL that only the classifier's reply names, and a second editorial
\* image with the URL hints and colour of the first and another hash
HeroMain == "https://cdn.shop.com/hero/111111.jpg"
CampaignE == "https://cdn.shop.com/campaign/111111-e.jpg"
UnknownUrl == "https://other.example/x.jpg"
LookbookE == "https://cdn.shop.com/lookbook/333333-e.jpg"

SelectUrls == {SkuP, ShirtW400, ShirtW1600, CampaignE}
ServerUrls == SelectUrls \cup {HeroMain, UnknownUrl, LookbookE}

KnownUrls == FinalUrls \cup ClusterUrls \cup ServerUrls
KnownCands == FinalCands \cup ClusterCands

\* the characters of each URL of the model
CharsOf ==
    (ShirtW400Q :> <<"h", "t", "t", "p", "s", ":", "/", "/", "s", "i", "t", "e", ".", "c", "o", "m", "/", "i", "m", "g", "/", "s", "h", "i", "r", "t", ".", "j", "p", "g", "?", "w", "=", "4", "0", "0", "&", "q", "=", "8", "0">>)
    @@ (ShirtW1600 :> <<"h", "t", "t", "p", "s", ":", "/", "/", "s", "i", "t", "e", ".", "c", "o", "m", "/", "i", "m", "g", "/", "s", "h", "i", "r", "t", ".", "j", "p", "g", "?", "w", "=", "1", "6", "0", "0", "&", "f", "o", "r", "m", "a", "t", "=", "w", "e", "b", "p">>)
    @@ (ShirtW400 :> <<"h", "t", "t", "p", "s", ":", "/", "/", "s", "i", "t", "e", ".", "c", "o", "m", "/", "i", "m", "g", "/", "s", "h", "i", "r", "t", ".", "j", "p", "g", "?", "w", "=", "4", "0", "0">>)
    @@ (HatLook :> <<"h", "t", "t", "p", "s", ":", "/", "/", "s", "i", "t", "e", ".", "c", "o", "m", "/", "l", "o", "o", "k", "/", "h", "a", "t", ".", "j", "p", "g">>)
    @@ (CapLook :> <<"h", "t", "t", "p", "s", ":", "/", "/", "s", "i", "t", "e", ".", "c", "o", "m", "/", "l", "o", "o", "k", "/", "c", "a", "p", ".", "j", "p", "g">>)
    @@ (HatProduct :> <<"h", "t", "t", "p", "s", ":", "/", "/", "s", "i", "t", "e", ".", "c", "o", "m", "/", "p", "r", "o", "d", "u", "c", "t", "s", "/", "h", "a", "t", "-", "p", ".", "j", "p", "g", "?", "v", "=", "2">>)
    @@ (SkuP :> <<"h", "t", "t", "p", "s", ":", "/", "/", "c", "d", "n", ".", "s", "h", "o", "p", ".", "c", "o", "m", "/", "p", "r", "o", "d", "u", "c", "t", "s", "/", "1", "1", "1", "1", "1", "1", "-", "p", "/", "1", "1", "1", "1", "1", "1", "-", "p", ".", "j", "p", "g">>)
    @@ (SkuLook :> <<"h", "t", "t", "p", "s", ":", "/", "/", "c", "d", "n", ".", "s", "h", "o", "p", ".", "c", "o", "m", "/", "l", "o", "o", "k", "/", "1", "1", "1", "1", "1", "1", "-", "e", "1", ".", "j", "p", "g">>)
    @@ (OtherFront :> <<"h", "t", "t", "p", "s", ":", "/", "/", "c", "d", "n", ".", "s", "h", "o", "p", ".", "c", "o", "m", "/", "p", "r", "o", "d", "u", "c", "t", "s", "/", "s", "t", "u", "d", "i", "o", "/", "2", "2", "2", "2", "2", "2", "-", "p", "/", "f", "r", "o", "n", "t", ".", "j", "p", "g">>)
    @@ (OtherBack :> <<"h", "t", "t", "p", "s", ":", "/", "/", "c", "d", "n", ".", "s", "h", "o", "p", ".", "c", "o", "m", "/", "p", "r", "o", "d", "u", "c", "t", "s", "/", "s", "t", "u", "d", "i", "o", "/", "2", "2", "2", "2", "2", "2", "-", "p", "/", "b", "a", "c", "k", ".", "j", "p", "g">>)
    @@ (QueryImg :> <<"h", "t", "t", "p", "s", ":", "/", "/", "i", "m", "g", ".", "s", "h", "o", "p", ".", "c", "o", "m", "/", "?", "i", "d", "=", "7">>)
    @@ (NoKeyPath :> <<"h", "t", "t", "p", "s", ":", "/", "/", "i", "m", "g", ".", "s", "h", "o", "p", ".", "c", "o", "m", "/", "_", "_", "n", "o", "k", "e", "y", "_", "_">>)
    @@ (QueryStudio :> <<"h", "t", "t", "p", "s", ":", "/", "/", "i", "m", "g", ".", "s", "h", "o", "p", ".", "c", "o", "m", "/", "?", "s", "r", "c", "=", "/", "p", "r", "o", "d", "u", "c", "t", "s", "/", "s", "t", "u", "d", "i", "o", "/", "f", "r", "o", "n", "t", ".", "j", "p", "g", "&", "w", "=", "2", "4", "0", "0">>)
    @@ (HeroMain :> <<"h", "t", "t", "p", "s", ":", "/", "/", "c", "d", "n", ".", "s", "h", "o", "p", ".", "c", "o", "m", "/", "h", "e", "r", "o", "/", "1", "1", "1", "1", "1", "1", ".", "j", "p", "g">>)
    @@ (CampaignE :> <<"h", "t", "t", "p", "s", ":", "/", "/", "c", "d", "n", ".", "s", "h", "o", "p", ".", "c", "o", "m", "/", "c", "a", "m", "p", "a", "i", "g", "n", "/", "1", "1", "1", "1", "1", "1", "-", "e", ".", "j", "p", "g">>)
    @@ (LookbookE :> <<"h", "t", "t", "p", "s", ":", "/", "/", "c", "d", "n", ".", "s", "h", "o", "p", ".", "c", "o", "m", "/", "l", "o", "o", "k", "b", "o", "o", "k", "/", "3", "3", "3", "3", "3", "3", "-", "e", ".", "j", "p", "g">>)
    @@ (UnknownUrl :> <<"h", "t", "t", "p", "s", ":", "/", "/", "o", "t", "h", "e", "r", ".", "e", "x", "a", "m", "p", "l", "e", "/", "x", ".", "j", "p", "g">>)

\* the pure functions of a URL or a candidate, tabulated once over the model's
\* URLs and candidates
withChars(c) == [c EXCEPT !.url = CharsOf[c.url]]
NormMemo == [u \in KnownUrls |-> normalizeForDedupe(CharsOf[u])]
ScoreMemo == [c \in KnownCands |-> scoreImageCandidate(withChars(c))]
KeyMemo == [u \in KnownUrls |-> extractProductKeyFromUrl(CharsOf[u])]
TokenMemo == [u \in KnownUrls |-> urlTokens(CharsOf[u])]
HostMemo == [u \in KnownUrls |-> ParseURL(CharsOf[u]).hostname]
PackshotMemo == [u \in KnownUrls |-> isPackshotUrl(CharsOf[u])]
dedupeKey(u) == tab.norm[u]
scoreOf(c) == tab.score[c]
keyOf(u) == tab.key[u]
tokensOf(u) == tab.tokens[u]
hostOf(u) == tab.host[u]
packshotUrl(u) == tab.packshot[u]

RECURSIVE byKeyOf_lastWins(_, _)
\* byKeyOf with "s >= prev.score": the last of several equal scores would survive
byKeyOf_lastWins(cands, byKey) ==
    IF cands = <<>> THEN byKey
    ELSE LET c == Head(cands)
             key == dedupeKey(c.url)
             s == scoreOf(c)
             has == \E i \in 1..Len(byKey) : byKey[i].key = key
             at == CHOOSE i \in 1..Len(byKey) : byKey[i].key = key
         IN  byKeyOf_lastWins(Tail(cands),
                     IF ~has THEN Append(byKey, [key |-> key, url |-> c.url, score |-> s])
                     ELSE IF s >= byKey[at].score
                          THEN [byKey EXCEPT ![at] = [key |-> key, url |-> c.url, score |-> s]]
                          ELSE byKey)

RECURSIVE byKeyOf(_, _)
\* the Map byKey after the loop, as the list of its entries in insertion order
byKeyOf(cands, byKey) ==
    IF cands = <<>> THEN byKey
    ELSE LET c == Head(cands)
             key == dedupeKey(c.url)
             s == scoreOf(c)
             has == \E i \in 1..Len(byKey) : byKey[i].key = key
             at == CHOOSE i \in 1..Len(byKey) : byKey[i].key = key
         IN  byKeyOf(Tail(cands),
                     IF ~has THEN Append(byKey, [key |-> key, url |-> c.url, score |-> s])
                     ELSE IF s > byKey[at].score
                          THEN [byKey EXCEPT ![at] = [key |-> key, url |-> c.url, score |-> s]]
                          ELSE byKey)

\* finalizeImageCandidates with a sort that puts the later of two equal scores first
finalizeImageCandidates_unstable(cands, max) ==
    LET vals == byKeyOf(cands, <<>>)
        sorted == sortStable(vals, [i, j \in 1..Len(vals) |-> vals[j].score - vals[i].score <= 0])
    IN  take([i \in 1..Len(sorted) |-> sorted[i].url], max)

finalizeImageCandidates(cands, max) ==
    LET vals == byKeyOf(cands, <<>>)
        sorted == sortStable(vals, [i, j \in 1..Len(vals) |-> vals[j].score - vals[i].score < 0])
    IN  take([i \in 1..Len(sorted) |-> sorted[i].url], max)

FinalLists == UNION {[1..n -> FinalCands] : n \in 0..MaxFinal}
FinalMaxes == {1, DefaultMax}

ClusterLists == UNION {[1..n -> ClusterCands] : n \in 0..MaxCluster}
\* no anchor (hero fallback), one anchor, and two anchors with a repeated one
ClusterAnchorLists == {<<>>, <<SkuP>>, <<SkuLook>>, <<QueryImg>>, <<NoKeyPath>>, <<SkuLook, SkuP, SkuLook>>}
ClusterMaxes == {0, 2, DefaultMax}

\* Array.from(new Set(xs)): the first occurrences, in order
uniq(xs) ==
    LET firsts == {i \in 1..Len(xs) : \A j \in 1..(i - 1) : xs[j] # xs[i]}
        RECURSIVE from(_)
        from(i) == IF i > Len(xs) THEN <<>>
                   ELSE (IF i \in firsts THEN <<xs[i]>> ELSE <<>>) \o from(i + 1)
    IN  from(1)

RECURSIVE sumSeq(_)
\* arr.reduce((acc, x) => acc + x, 0)
sumSeq(s) == IF s = <<>> THEN 0 ELSE Head(s) + sumSeq(Tail(s))

\* scoreAgainstAnchors: one ScoredCand per candidate (anchorSim in units of 1/SimUnit)
scoreAgainstAnchors(cands, anchors) ==
    LET anchorHosts == {hostOf(anchors[i]) : i \in 1..Len(anchors)}
        one(cand) ==
            LET t == tokensOf(cand.url)
                sims == {jaccard(t, tokensOf(anchors[i])) : i \in 1..Len(anchors)} \cup {0}
                bestSim == CHOOSE x \in sims : \A y \in sims : y <= x
                host == hostOf(cand.url)
                hostBump == IF host \in anchorHosts THEN SimUnit \div 20 ELSE 0
            IN  [cand |-> cand, score |-> scoreOf(cand), key |-> keyOf(cand.url),
                 anchorSim |-> Min(SimUnit, bestSim + hostBump), host |-> host]
    IN  [i \in 1..Len(cands) |-> one(cands[i])]

\* v = scoreImageCandidate(c) + area bump, over the img and source candidates
heroValue(c) == scoreOf(c) + (IF c.area # 0 THEN Min(200, c.area \div 4000) ELSE 0)

\* pickHeroImgCandidate: the first img/source candidate of greatest value, "" when none
pickHeroImgCandidate(cands) ==
    LET imgs == {i \in 1..Len(cands) : cands[i].origin \in {"img", "source"}}
    IN  IF imgs = {} THEN ""
        ELSE cands[CHOOSE i \in imgs :
                    /\ \A j \in imgs : heroValue(cands[j]) <= heroValue(cands[i])
                    /\ \A j \in imgs : heroValue(cands[j]) = heroValue(cands[i]) => i <= j].url

\* uniqAnchors, with the hero image as the fallback anchor
uniqAnchorsOf(allCandidates, anchors) ==
    LET given == uniq(SelectSeq(anchors, LAMBDA a : a # ""))
        hero == pickHeroImgCandidate(allCandidates)
    IN  IF given = <<>> /\ hero # "" THEN <<hero>> ELSE given

clusterKeyOf(sc) == IF sc.key = NoStr THEN NoKey ELSE sc.key

\* the keys of the Map clusters in insertion order
clusterKeys(scored) == uniq([i \in 1..Len(scored) |-> clusterKeyOf(scored[i])])

\* clusters.get(k): the members of a cluster in candidate order
clusterOf(scored, k) == SelectSeq(scored, LAMBDA sc : clusterKeyOf(sc) = k)

anchorKeysOf(uniqAnchors) ==
    SelectSeq([i \in 1..Len(uniqAnchors) |-> keyOf(uniqAnchors[i])], LAMBDA x : x # NoStr)

sumScore(arr) == sumSeq([i \in 1..Len(arr) |-> arr[i].score])
sumAnchorSim(arr) == sumSeq([i \in 1..Len(arr) |-> arr[i].anchorSim])
hasPackshot(arr) == \E i \in 1..Len(arr) : packshotUrl(arr[i].cand.url)

\* clusterScore without the anchor-key bonus (a cluster matching an anchor key would
\* get nothing for it)
clusterScore_noKeyBonus(key, arr, uniqAnchors) ==
    LET anchorHosts == {hostOf(uniqAnchors[i]) : i \in 1..Len(uniqAnchors)}
        packshotBonus == IF hasPackshot(arr) THEN 500 ELSE 0
        sameHostBonus == Len(SelectSeq(arr, LAMBDA sc : hostOf(sc.cand.url) \in anchorHosts)) * 5
    IN  (sumScore(arr) + packshotBonus + sameHostBonus) * SimUnit
            + 400 * sumAnchorSim(arr)

\* clusterScore of one cluster, times SimUnit
clusterScore(key, arr, uniqAnchors) ==
    LET anchorHosts == {hostOf(uniqAnchors[i]) : i \in 1..Len(uniqAnchors)}
        sameKeyBonus == IF key \in Range(anchorKeysOf(uniqAnchors)) THEN 1500 ELSE 0
        packshotBonus == IF hasPackshot(arr) THEN 500 ELSE 0
        sameHostBonus == Len(SelectSeq(arr, LAMBDA sc : hostOf(sc.cand.url) \in anchorHosts)) * 5
    IN  (sumScore(arr) + sameKeyBonus + packshotBonus + sameHostBonus) * SimUnit
            + 400 * sumAnchorSim(arr)

\* a relaxed score whose bonus exceeds the bonuses of the combined score
relaxedScore_bonus3000(arr) == (sumScore(arr) + 3000) * SimUnit + 400 * sumAnchorSim(arr)

\* the relaxed score of the no-key guard, times SimUnit
relaxedScore(arr) == (sumScore(arr) + 300) * SimUnit + 400 * sumAnchorSim(arr)

\* bestKey after the scoring loop: the first cluster of greatest clusterScore
\* (<<>> is the initial "" when there is no cluster)
bestKeyOf(scored, uniqAnchors) ==
    LET keys == clusterKeys(scored)
        cs == [i \in 1..Len(keys) |->
                    clusterScore(keys[i], clusterOf(scored, keys[i]), uniqAnchors)]
    IN  IF keys = <<>> THEN <<>>
        ELSE keys[CHOOSE i \in 1..Len(keys) :
                    /\ \A j \in 1..Len(keys) : cs[j] <= cs[i]
                    /\ \A j \in 1..Len(keys) : cs[j] = cs[i] => i <= j]

\* altKey of the no-key guard: the first keyed packshot cluster of greatest relaxed
\* score above the best cluster score, NoKey when there is none
altKeyOf(scored, uniqAnchors) ==
    LET keys == clusterKeys(scored)
        bestClusterScore == clusterScore(NoKey, clusterOf(scored, NoKey), uniqAnchors)
        rs == [i \in 1..Len(keys) |-> relaxedScore(clusterOf(scored, keys[i]))]
        ok == {i \in 1..Len(keys) :
                /\ keys[i] # NoKey
                /\ hasPackshot(clusterOf(scored, keys[i]))
                /\ rs[i] > bestClusterScore}
    IN  IF ok = {} THEN NoKey
        ELSE keys[CHOOSE i \in ok :
                    /\ \A j \in ok : rs[j] <= rs[i]
                    /\ \A j \in ok : rs[j] = rs[i] => i <= j]

\* the key of the cluster chosen by selectPrimaryProductImages
chosenKeyOf(scored, uniqAnchors) ==
    LET bestKey == bestKeyOf(scored, uniqAnchors)
    IN  IF bestKey = NoKey THEN altKeyOf(scored, uniqAnchors) ELSE bestKey

RECURSIVE dedupCap_keepAll(_, _, _, _)
\* the loop without the test of seen: every URL is pushed up to the cap
dedupCap_keepAll(ordered, seen, out, max) ==
    IF ordered = <<>> THEN out
    ELSE LET out2 == Append(out, Head(ordered))
         IN  IF Len(out2) >= max THEN out2
             ELSE dedupCap_keepAll(Tail(ordered), seen, out2, max)

RECURSIVE dedupCap(_, _, _, _)
\* the de-dup loop: push an unseen key, then break once out.length >= max
dedupCap(ordered, seen, out, max) ==
    IF ordered = <<>> THEN out
    ELSE LET u == Head(ordered)
             key == dedupeKey(u)
             out2 == IF key \in seen THEN out ELSE Append(out, u)
         IN  IF Len(out2) >= max THEN out2
             ELSE dedupCap(Tail(ordered), seen \cup {key}, out2, max)

\* selectPrimaryProductImages whose sort compares the scores alone
selectPrimaryProductImages_scoreOnly(allCandidates, anchors, max) ==
    LET uniqAnchors == uniqAnchorsOf(allCandidates, anchors)
        scored == scoreAgainstAnchors(allCandidates, uniqAnchors)
        chosen == clusterOf(scored, chosenKeyOf(scored, uniqAnchors))
        sorted == sortStable(chosen,
                    [i, j \in 1..Len(chosen) |-> chosen[j].score - chosen[i].score < 0])
    IN  dedupCap([i \in 1..Len(sorted) |-> sorted[i].cand.url], {}, <<>>, max)

selectPrimaryProductImages(allCandidates, anchors, max) ==
    LET uniqAnchors == uniqAnchorsOf(allCandidates, anchors)
        scored == scoreAgainstAnchors(allCandidates, uniqAnchors)
        chosen == clusterOf(scored, chosenKeyOf(scored, uniqAnchors))
        sorted == sortStable(chosen,
                    [i, j \in 1..Len(chosen) |->
                        IF chosen[j].anchorSim # chosen[i].anchorSim
                        THEN chosen[j].anchorSim - chosen[i].anchorSim < 0
                        ELSE chosen[j].score - chosen[i].score < 0])
    IN  dedupCap([i \in 1..Len(sorted) |-> sorted[i].cand.url], {}, <<>>, max)

(***************************************************************************)
(* Vision utilities (functions/lib/vision)                                 *)
(***************************************************************************)
\* a dHash is a string of 16 hex digits (padStart(16, "0"))
HashLen == 16

\* BigInt(`0x${hex}`): the value of each hex digit, in either case
HexValue ==
    [c \in Digits |-> DigitValue(c)]
    @@ ("a" :> 10) @@ ("b" :> 11) @@ ("c" :> 12) @@ ("d" :> 13) @@ ("e" :> 14) @@ ("f" :> 15)
    @@ ("A" :> 10) @@ ("B" :> 11) @@ ("C" :> 12) @@ ("D" :> 13) @@ ("E" :> 14) @@ ("F" :> 15)

\* the number of bits in which two hex digits differ
xorBits(a, b) == Cardinality({i \in 0..3 : ((a \div (2 ^ i)) % 2) # ((b \div (2 ^ i)) % 2)})

\* hamming: both strings read as numbers (a shorter one has leading zeros), XOR,
\* then one count per 1 bit
hamming_onlyInA(hexA, hexB) ==
    LET n == Max(Len(hexA), Len(hexB))
        digit(h, i) == IF i <= n - Len(h) THEN 0 ELSE HexValue[h[i - (n - Len(h))]]
        bit(v, i) == (v \div (2 ^ i)) % 2
    IN  sumSeq([i \in 1..n |->
            Cardinality({k \in 0..3 : bit(digit(hexA, i), k) = 1 /\ bit(digit(hexB, i), k) = 0})])

hamming(hexA, hexB) ==
    LET n == Max(Len(hexA), Len(hexB))
        digit(h, i) == IF i <= n - Len(h) THEN 0 ELSE HexValue[h[i - (n - Len(h))]]
    IN  sumSeq([i \in 1..n |-> xorBits(digit(hexA, i), digit(hexB, i))])

\* colorDistance: Math.sqrt of the sum of squares; the images of the model differ in
\* the red channel only, so the root is a whole number
colorDistance(a, b) ==
    LET dr == a.r - b.r
        dg == a.g - b.g
        db == a.b - b.b
        n == dr * dr + dg * dg + db * db
    IN  CHOOSE r \in 0..442 : r * r <= n /\ n < (r + 1) * (r + 1)

\* minDistanceToAnchors
minDistanceToAnchors(d, anchors) ==
    IF anchors = <<>> THEN 64
    ELSE LET ds == {hamming(d, anchors[i]) : i \in 1..Len(anchors)}
         IN  CHOOSE x \in ds : \A y \in ds : x <= y

\* featuresFromBuffer of the image behind each URL: its dHash and average colour.
\* The hashes differ in whole digits, so two images are 4 bits apart per digit.
hashWith(k) == [i \in 1..HashLen |-> IF i <= k THEN "0" ELSE "f"]
Features(k, red) == [dhashHex |-> hashWith(k), avg |-> [r |-> red, g |-> 128, b |-> 128]]
ImageAt ==
    (HeroMain :> Features(0, 128))
    @@ (SkuP :> Features(1, 130))
    @@ (ShirtW400 :> Features(5, 140))
    @@ (ShirtW1600 :> Features(5, 140))
    @@ (CampaignE :> Features(9, 60))
    @@ (LookbookE :> Features(10, 60))

(***************************************************************************)
(* Server operation selectProductImages (functions/index)                  *)
(***************************************************************************)
\* /(?:-e(?:\.|\/|-)|editorial|lookbook|campaign|lifestyle|kids|baby)/i
isEditorial(url) ==
    \/ hasSuffixToken(toLowerCase(url), "e")
    \/ hasAny(url, { <<"e", "d", "i", "t", "o", "r", "i", "a", "l">>, <<"l", "o", "o", "k", "b", "o", "o", "k">>, <<"c", "a", "m", "p", "a", "i", "g", "n">>, <<"l", "i", "f", "e", "s", "t", "y", "l", "e">>, <<"k", "i", "d", "s">>, <<"b", "a", "b", "y">> })

\* /(\/p\/|_p\.|\/product|packshot|studio)/i
looksLikePackshot(url) ==
    hasAny(url, { <<"/", "p", "/">>, <<"_", "p", ".">>, <<"/", "p", "r", "o", "d", "u", "c", "t">>, <<"p", "a", "c", "k", "s", "h", "o", "t">>, <<"s", "t", "u", "d", "i", "o">> })

\* Number(s) of a query value: its digits as a number; NaN (falsy) for any other
\* text of the model, 0 for the empty string
NumberOr0(s) ==
    IF s # <<>> /\ \A i \in 1..Len(s) : s[i] \in Digits THEN parseDigits(s, 0) ELSE 0

\* arHint in tenths: 0.5 by default, from the w query parameter 1, 0.8 or 0.6
arHint(url) ==
    LET got == paramsGet(searchParams(ParseURL(url).search), <<"w">>)
        w == NumberOr0(got)
    IN  IF w # 0 THEN (IF w >= 800 THEN 10 ELSE IF w >= 560 THEN 8 ELSE 6) ELSE 5

EditorialMemo == [u \in ServerUrls |-> isEditorial(CharsOf[u])]
PackshotHintMemo == [u \in ServerUrls |-> looksLikePackshot(CharsOf[u])]
ArHintMemo == [u \in ServerUrls |-> arHint(CharsOf[u])]

\* the common denominator of the terms of the composite score: distScore is in
\* 32nds, colorSim in 44167ths (cd / 441.67), the weights in 200ths
CompositeUnit == 3200 * 44167

\* colorSim.toFixed(3), in thousandths; cd is absent (colorSim 0) without features
colorSimOf(fetched, cd) ==
    IF fetched THEN (2000 * (44167 - Min(100 * cd, 44167)) + 44167) \div (2 * 44167) ELSE 0

\* composite.toFixed(3), in thousandths:
\* clamp(0.45 * distScore + 0.35 * colorSim + 0.15 * arHint + urlBias + editorialPenalty)
compositeOf(fetched, dist, cd, ar, packshot, editorial) ==
    LET distScore32 == IF fetched THEN 32 - Min(dist, 32) ELSE 8
        colorSim44167 == IF fetched THEN 44167 - Min(100 * cd, 44167) ELSE 0
        w200 == CompositeUnit \div 200
        x == 9 * distScore32 * (CompositeUnit \div 640)
               + 7 * colorSim44167 * (CompositeUnit \div (20 * 44167))
               + (3 * ar + (IF packshot THEN 30 ELSE 0) - (IF editorial THEN 50 ELSE 0)) * w200
        clamped == Max(0, Min(CompositeUnit, x))
    IN  (10 * clamped + w200) \div (2 * w200)

Buckets == {"confident", "semiConfident", "notConfident"}
emptyGroups == [b \in Buckets |-> <<>>]

\* avgAnchorColor: the mean of the anchors' colours, each channel rounded
\* (Math.round: halves go up), or mid grey without anchor features
avgAnchorColor(anchorFeatures) ==
    LET n == Len(anchorFeatures)
        mean(ch) == (2 * sumSeq([i \in 1..n |-> anchorFeatures[i].avg[ch]]) + n) \div (2 * n)
    IN  IF n = 0 THEN [r |-> 128, g |-> 128, b |-> 128]
        ELSE [r |-> mean("r"), g |-> mean("g"), b |-> mean("b")]

\* one entry of enriched: the candidate with its features (dist and colorSim are
\* absent, here 0 with fetched = FALSE, when the fetch gave no image)
enrich(url, fetched, anchorFeatures) ==
    LET f == ImageAt[url]
        anchorHashes == [i \in 1..Len(anchorFeatures) |-> anchorFeatures[i].dhash]
        dist == minDistanceToAnchors(f.dhashHex, anchorHashes)
        cd == colorDistance(f.avg, avgAnchorColor(anchorFeatures))
    IN  [url |-> url,
         fetched |-> fetched,
         dist |-> IF fetched THEN dist ELSE 0,
         colorSim |-> colorSimOf(fetched, cd),
         isEditorial |-> tab.editorial[url],
         looksLikePackshot |-> tab.packshotHint[url],
         composite |-> compositeOf(fetched, dist, cd, tab.arHint[url],
                                   tab.packshotHint[url], tab.editorial[url])]

\* e.dist ?? 64
distOr64(e) == IF e.fetched THEN e.dist ELSE 64

\* the condition of the first branch of enriched.forEach (push to confident)
confidentRule(e) ==
    LET d == distOr64(e)
        s == e.composite
        highColor == e.colorSim >= 860
        nearDist == d <= 12
        medDist == d <= 20
    IN  /\ ~e.isEditorial
        /\ e.looksLikePackshot
        /\ ((nearDist /\ s >= 600) \/ (medDist /\ highColor /\ s >= 550))

\* a semi-confident condition that asks for a higher composite than the first branch
semiRule_strict(e) == ~e.isEditorial /\ distOr64(e) <= 28 /\ e.composite >= 650

\* the condition of the second branch (push to semiConfident)
semiRule(e) ==
    LET d == distOr64(e)
        s == e.composite
        highColor == e.colorSim >= 860
        farButLikely == d <= 28 /\ highColor /\ e.looksLikePackshot /\ ~e.isEditorial
    IN  ~e.isEditorial /\ ((d <= 28 /\ s >= 450) \/ farButLikely)

\* the bucket the threshold rules give one enriched candidate
seedBucket(e) ==
    IF confidentRule(e) THEN "confident"
    ELSE IF semiRule(e) THEN "semiConfident"
    ELSE "notConfident"

\* the same two conditions in the TypeScript source of the function
confidentRuleTs(e) == distOr64(e) <= 8 /\ e.composite >= 700 /\ ~e.isEditorial
semiRuleTs(e) == distOr64(e) <= 16 /\ e.composite >= 500

\* groups after enriched.forEach: each list in candidate order, repeats included
seedGroups(enriched) ==
    [b \in Buckets |->
        LET mine == SelectSeq(enriched, LAMBDA e : seedBucket(e) = b)
        IN  [i \in 1..Len(mine) |-> mine[i].url]]

\* a Set is the sequence of its members in insertion order
setAdd(s, u) == IF u \in Range(s) THEN s ELSE Append(s, u)
setDelete(s, u) == SelectSeq(s, LAMBDA x : x # u)

\* new Set(enriched.map(e => e.url))
allUrlsOf(enriched) == uniq([i \in 1..Len(enriched) |-> enriched[i].url])

\* u taken out of every bucket and put into target
moveTo(final, target, u) ==
    [b \in Buckets |-> IF b = target THEN setAdd(final[b], u) ELSE setDelete(final[b], u)]

RECURSIVE apply_unguarded(_, _, _, _)
\* apply without the test allUrls.has(u)
apply_unguarded(final, allUrls, target, urls) ==
    IF urls = <<>> THEN final
    ELSE LET u == Head(urls)
             cleared == [b \in Buckets |-> setDelete(final[b], u)]
         IN  apply_unguarded(moveTo(cleared, target, u), allUrls, target, Tail(urls))

RECURSIVE apply(_, _, _, _)
\* apply(target, urls): each listed URL that is a candidate leaves all three
\* buckets and joins target
apply(final, allUrls, target, urls) ==
    IF urls = <<>> THEN final
    ELSE LET u == Head(urls)
             cleared == [b \in Buckets |-> setDelete(final[b], u)]
             next == IF u \in Range(allUrls) THEN moveTo(cleared, target, u) ELSE final
         IN  apply(next, allUrls, target, Tail(urls))

\* the three apply calls in the opposite order, confident last
applyAll_confidentLast(final, allUrls, llmGroups) ==
    apply(apply(apply(final, allUrls, "notConfident", llmGroups.notConfident),
                allUrls, "semiConfident", llmGroups.semiConfident),
          allUrls, "confident", llmGroups.confident)

\* the three apply calls, confident first
applyAll(final, allUrls, llmGroups) ==
    apply(apply(apply(final, allUrls, "confident", llmGroups.confident),
                allUrls, "semiConfident", llmGroups.semiConfident),
          allUrls, "notConfident", llmGroups.notConfident)

\* anchorsInCandidates: the used anchors that are candidate URLs, in anchor order
anchorsInCandidates(allUrls, anchors) == SelectSeq(anchors, LAMBDA u : u \in Range(allUrls))

RECURSIVE moveAll(_, _, _)
\* every URL of the list is added to target and deleted from the other buckets
moveAll(final, target, urls) ==
    IF urls = <<>> THEN final
    ELSE moveAll(moveTo(final, target, Head(urls)), target, Tail(urls))

\* the merge without the hard rule for anchors
forceAnchors_none(final, allUrls, anchors) == final

\* hard rule: an anchor that appears in the candidates is forced into confident
forceAnchors(final, allUrls, anchors) ==
    moveAll(final, "confident", anchorsInCandidates(allUrls, anchors))

\* a URL that is in no bucket goes to semiConfident
ensurePlaced(final, allUrls) ==
    LET unplaced == SelectSeq(allUrls, LAMBDA u : \A b \in Buckets : u \notin Range(final[b]))
    IN  [final EXCEPT !.semiConfident = final.semiConfident \o unplaced]

\* scoreMap / distMap: new Map(enriched.map(...)) keeps the last entry of a URL
lastOf(enriched, u) ==
    enriched[CHOOSE i \in 1..Len(enriched) :
                /\ enriched[i].url = u
                /\ \A j \in (i + 1)..Len(enriched) : enriched[j].url # u]

\* order that compares the composites alone
orderBefore_compositeOnly(enriched, a, b) ==
    lastOf(enriched, b).composite - lastOf(enriched, a).composite < 0

\* order(a, b) < 0: greater composite first, then smaller distance
orderBefore(enriched, a, b) ==
    LET ea == lastOf(enriched, a)
        eb == lastOf(enriched, b)
    IN  IF eb.composite - ea.composite # 0
        THEN eb.composite - ea.composite < 0
        ELSE distOr64(ea) - distOr64(eb) < 0

\* Array.from(set).sort(order)
ordered(set, enriched) ==
    sortStable(set, [i, j \in 1..Len(set) |-> orderBefore(enriched, set[i], set[j])])

\* auto-promotion that never falls back on all candidates
autoPromoted_semiOnly(final, allUrls, enriched) ==
    IF final.confident = <<>>
    THEN take(ordered(final.semiConfident, enriched), Min(2, Len(final.semiConfident)))
    ELSE <<>>

\* auto-promotion that does not look at confident
autoPromoted_always(final, allUrls, enriched) ==
    LET semi == ordered(final.semiConfident, enriched)
        src == IF semi # <<>> THEN semi ELSE ordered(allUrls, enriched)
    IN  take(src, Min(2, Len(src)))

\* auto-promotion of up to three URLs
autoPromoted_three(final, allUrls, enriched) ==
    IF final.confident = <<>>
    THEN LET semi == ordered(final.semiConfident, enriched)
             src == IF semi # <<>> THEN semi ELSE ordered(allUrls, enriched)
         IN  take(src, Min(3, Len(src)))
    ELSE <<>>

\* autoPromoted: with confident empty, the top two of semiConfident, or of all
\* candidates when semiConfident is empty too
autoPromoted(final, allUrls, enriched) ==
    IF final.confident = <<>>
    THEN LET semi == ordered(final.semiConfident, enriched)
             src == IF semi # <<>> THEN semi ELSE ordered(allUrls, enriched)
         IN  take(src, Min(2, Len(src)))
    ELSE <<>>

\* one returned bucket without the URLs whose normalized form came earlier
outBucket_normalized(set, enriched) ==
    LET o == ordered(set, enriched)
    IN  SelectSeq([i \in 1..Len(o) |->
                      IF \E j \in 1..(i - 1) : dedupeKey(o[j]) = dedupeKey(o[i]) THEN "" ELSE o[i]],
                  LAMBDA u : u # "")

\* one bucket of outGroups
outBucket(set, enriched) == ordered(set, enriched)

\* the merge starting from empty buckets: only the reply and the default place URLs
beforePromotion_replyOnly(groups, llmGroups, enriched, anchors) ==
    LET allUrls == allUrlsOf(enriched)
        final1 == applyAll(emptyGroups, allUrls, llmGroups)
    IN  ensurePlaced(forceAnchors(final1, allUrls, anchors), allUrls)

\* lines 411-445: the buckets after the classifier's groups were applied, the
\* anchors forced and every URL placed
beforePromotion(groups, llmGroups, enriched, anchors) ==
    LET allUrls == allUrlsOf(enriched)
        final0 == [b \in Buckets |-> uniq(groups[b])]
        final1 == applyAll(final0, allUrls, llmGroups)
    IN  ensurePlaced(forceAnchors(final1, allUrls, anchors), allUrls)

\* lines 411-471: from the seeding and the classifier's groups to what is returned
merged(groups, llmGroups, enriched, anchors) ==
    LET allUrls == allUrlsOf(enriched)
        final2 == beforePromotion(groups, llmGroups, enriched, anchors)
        promoted == autoPromoted(final2, allUrls, enriched)
        final3 == moveAll(final2, "confident", promoted)
    IN  [groups |-> [b \in Buckets |-> outBucket(final3[b], enriched)],
         anchorsForcedConfident |-> Len(anchorsInCandidates(allUrls, anchors)),
         autoPromoted |-> promoted]

TabInit ==
    tab = [norm |-> NormMemo, score |-> ScoreMemo, key |-> KeyMemo, tokens |-> TokenMemo,
           host |-> HostMemo, packshot |-> PackshotMemo, editorial |-> EditorialMemo,
           packshotHint |-> PackshotHintMemo, arHint |-> ArHintMemo]

NormInit ==
    /\ npc = "idle"
    /\ normIn = <<>>
    /\ normOut = <<>>

FinalInit ==
    /\ fpc = "idle"
    /\ fCands = <<>>
    /\ fMax = 0
    /\ fOut = <<>>
    /\ fAgain = <<>>

ClusterInit ==
    /\ cpc = "idle"
    /\ cCands = <<>>
    /\ cAnchors = <<>>
    /\ cMax = 0
    /\ cOut = <<>>

SelectInit ==
    /\ spc = "idle"
    /\ sPayload = [anchors |-> <<>>, candidates |-> <<>>]
    /\ sAnchors = <<>>
    /\ sNext = 1
    /\ sAnchorFeatures = <<>>
    /\ sPending = {}
    /\ sEnriched = <<>>
    /\ sGroups = emptyGroups
    /\ sLlm = [failed |-> FALSE, groups |-> emptyGroups]
    /\ sReturn = [groups |-> emptyGroups, anchorsForcedConfident |-> 0, autoPromoted |-> <<>>]

\* one call normalizeForDedupe(u)
Normalize ==
    /\ npc = "idle"
    /\ \E u \in NormInputs :
        /\ normIn' = u
        /\ normOut' = normalizeForDedupe(u)
    /\ npc' = "done"
    /\ UNCHANGED <<finalVars, clusterVars, selectVars, keyVars, hammingVars, seedVars, scoreVars, clipVars, genVars, previewVars, tab>>

\* one call finalizeImageCandidates(cands, max)
Finalize ==
    /\ fpc = "idle"
    /\ \E cands \in FinalLists, max \in FinalMaxes :
        /\ fCands' = cands
        /\ fMax' = max
        /\ fOut' = finalizeImageCandidates(cands, max)
    /\ fpc' = "done"
    /\ UNCHANGED <<fAgain, normVars, clusterVars, selectVars, keyVars, hammingVars, seedVars, scoreVars, clipVars, genVars, previewVars, tab>>

\* the caller feeds the returned URLs back, each as a candidate { url }
FinalizeAgain ==
    /\ fpc = "done"
    /\ fAgain' = finalizeImageCandidates([i \in 1..Len(fOut) |-> urlOnly(fOut[i])], fMax)
    /\ fpc' = "again"
    /\ UNCHANGED <<fCands, fMax, fOut, normVars, clusterVars, selectVars, keyVars, hammingVars, seedVars, scoreVars, clipVars, genVars, previewVars, tab>>

\* one call selectPrimaryProductImages(allCandidates, anchors, max)
SelectPrimary ==
    /\ cpc = "idle"
    /\ \E cands \in ClusterLists, anchors \in ClusterAnchorLists, max \in ClusterMaxes :
        /\ cCands' = cands
        /\ cAnchors' = anchors
        /\ cMax' = max
        /\ cOut' = selectPrimaryProductImages(cands, anchors, max)
    /\ cpc' = "done"
    /\ UNCHANGED <<normVars, finalVars, selectVars, keyVars, hammingVars, seedVars, scoreVars, clipVars, genVars, previewVars, tab>>

\* the requests of the model: up to MaxCandidates candidates, a URL possibly
\* repeated, one request of three and one of two editorial images; no anchor,
\* one anchor, or four of which three are used
SeqsUpTo(S, n) == UNION {[1..k -> S] : k \in 0..n}
SelectCandidateLists ==
    SeqsUpTo(SelectUrls, MaxCandidates) \cup {<<SkuP, ShirtW400, ShirtW1600>>, <<LookbookE, CampaignE>>}
SelectAnchorLists == {<<>>, <<HeroMain>>, <<SkuP>>, <<CampaignE, HeroMain, ShirtW400, SkuP>>}

\* the classifier's replies: per bucket up to MaxListed URLs, candidates or not
Replies(cands) == [Buckets -> SeqsUpTo(Range(cands) \cup {UnknownUrl}, MaxListed)]

\* the request arrives: anchors = payload.anchors.slice(0, 3)
Receive ==
    /\ spc = "idle"
    /\ \E anchors \in SelectAnchorLists, cands \in SelectCandidateLists :
        /\ sPayload' = [anchors |-> anchors, candidates |-> cands]
        /\ sAnchors' = take(anchors, 3)
    /\ spc' = "anchors"
    /\ UNCHANGED <<sNext, sAnchorFeatures, sPending, sEnriched, sGroups, sLlm, sReturn>>
    /\ UNCHANGED <<normVars, finalVars, clusterVars, keyVars, hammingVars, seedVars, scoreVars, clipVars, genVars, previewVars, tab>>

\* the fetch of the next anchor answers: with an image, whose features are
\* pushed, or with a failure (exception or status not ok), which is skipped
AnchorFetched ==
    /\ spc = "anchors"
    /\ sNext <= Len(sAnchors)
    /\ \E ok \in BOOLEAN :
        sAnchorFeatures' =
            IF ok
            THEN Append(sAnchorFeatures, [dhash |-> ImageAt[sAnchors[sNext]].dhashHex,
                                          avg |-> ImageAt[sAnchors[sNext]].avg])
            ELSE sAnchorFeatures
    /\ sNext' = sNext + 1
    /\ UNCHANGED <<spc, sPayload, sAnchors, sPending, sEnriched, sGroups, sLlm, sReturn>>
    /\ UNCHANGED <<normVars, finalVars, clusterVars, keyVars, hammingVars, seedVars, scoreVars, clipVars, genVars, previewVars, tab>>

\* payload.candidates.map(async ...): all candidate fetches are issued at once
IssueCandidateFetches ==
    /\ spc = "anchors"
    /\ sNext > Len(sAnchors)
    /\ sPending' = 1..Len(sPayload.candidates)
    /\ spc' = "candidates"
    /\ UNCHANGED <<sPayload, sAnchors, sNext, sAnchorFeatures, sEnriched, sGroups, sLlm, sReturn>>
    /\ UNCHANGED <<normVars, finalVars, clusterVars, keyVars, hammingVars, seedVars, scoreVars, clipVars, genVars, previewVars, tab>>

\* results stored in order of arrival instead of by index
resultSlot_arrival(i, enriched) == Cardinality(DOMAIN enriched) + 1

\* Promise.all: the value of the i-th promise is element i of the result, whenever
\* it settles
resultSlot(i, enriched) == i

\* one candidate fetch answers, in any order, with an image or a failure, and
\* its entry of enriched is computed
CandidateFetched ==
    /\ spc = "candidates"
    /\ \E i \in sPending, ok \in BOOLEAN :
        /\ sEnriched' = sEnriched @@ (resultSlot(i, sEnriched) :> enrich(sPayload.candidates[i], ok, sAnchorFeatures))
        /\ sPending' = sPending \ {i}
    /\ UNCHANGED <<spc, sPayload, sAnchors, sNext, sAnchorFeatures, sGroups, sLlm, sReturn>>
    /\ UNCHANGED <<normVars, finalVars, clusterVars, keyVars, hammingVars, seedVars, scoreVars, clipVars, genVars, previewVars, tab>>

\* Promise.all has resolved: the rule-based pre-buckets, then the request to the
\* classifier is on its way (the inline images only feed that request)
Seed ==
    /\ spc = "candidates"
    /\ sPending = {}
    /\ sGroups' = seedGroups(sEnriched)
    /\ spc' = "classify"
    /\ UNCHANGED <<sPayload, sAnchors, sNext, sAnchorFeatures, sPending, sEnriched, sLlm, sReturn>>
    /\ UNCHANGED <<normVars, finalVars, clusterVars, keyVars, hammingVars, seedVars, scoreVars, clipVars, genVars, previewVars, tab>>

\* the classifier answers with groups; merge, promotions, ordering and return
ClassifierReplies ==
    /\ spc = "classify"
    /\ \E reply \in Replies(sPayload.candidates) :
        /\ sLlm' = [failed |-> FALSE, groups |-> reply]
        /\ sReturn' = merged(sGroups, reply, sEnriched, sAnchors)
    /\ spc' = "done"
    /\ UNCHANGED <<sPayload, sAnchors, sNext, sAnchorFeatures, sPending, sEnriched, sGroups>>
    /\ UNCHANGED <<normVars, finalVars, clusterVars, keyVars, hammingVars, seedVars, scoreVars, clipVars, genVars, previewVars, tab>>

\* generateContentWithFallback or extractJson throws: llmGroups stays empty; merge,
\* promotions, ordering and return as after a reply
ClassifierFails ==
    /\ spc = "classify"
    /\ sLlm' = [failed |-> TRUE, groups |-> emptyGroups]
    /\ sReturn' = merged(sGroups, emptyGroups, sEnriched, sAnchors)
    /\ spc' = "done"
    /\ UNCHANGED <<sPayload, sAnchors, sNext, sAnchorFeatures, sPending, sEnriched, sGroups>>
    /\ UNCHANGED <<normVars, finalVars, clusterVars, keyVars, hammingVars, seedVars, scoreVars, clipVars, genVars, previewVars, tab>>

(***************************************************************************)
(* Inputs of the key extraction: every path of at most MaxSegs of the      *)
(* segments below, and the two retailer URLs of the documentation.         *)
(***************************************************************************)
KeyHost == <<"h", "t", "t", "p", "s", ":", "/", "/", "e", "x", "a", "m", "p", "l", "e", ".", "c", "o", "m">>
KeySegs == { <<"p", "r", "o", "d", "u", "c", "t", "s">>, <<"0", "6", "9", "8", "7", "3", "2", "5", "4", "0", "9", "-", "p">>, <<"0", "6", "9", "8", "7", "3", "2", "5", "4", "0", "9", "-", "e", "1", ".", "j", "p", "g">>, <<"1", "2", "3", "4", "5", "6", "_", "E", ".", "J", "P", "G">>,
             <<"1", "2", "3", "4", "5", "6", "7">>, <<"1", "1", "1", "1", "1", "1", "x", "2", "2", "2", "2", "2", "2", ".", "j", "p", "g">>, <<"3", "3", "3", "3", "3", "3", "x", "4", "4", "4", "4", "4", "4", "4">>, <<"1", "2", "3", "4", "5", "-", "p", ".", "j", "p", "g">>,
             <<"l", "o", "o", "k", ".", "v", "2", ".", "j", "p", "g">>, <<".", "j", "p", "g">>, <<"h", "a", "t">>, <<"6", "5", "4", "3", "2", "1", "-", "p", "x">> }
KeyExampleP == << <<"p", "r", "o", "d", "u", "c", "t", "s">>, <<"0", "6", "9", "8", "7", "3", "2", "5", "4", "0", "9", "-", "p">>, <<"0", "6", "9", "8", "7", "3", "2", "5", "4", "0", "9", "-", "p", ".", "j", "p", "g">> >>
KeyExampleE == << <<"p", "r", "o", "d", "u", "c", "t", "s">>, <<"0", "6", "9", "8", "7", "3", "2", "5", "4", "0", "9", "-", "p">>, <<"0", "6", "9", "8", "7", "3", "2", "5", "4", "0", "9", "-", "e", "1", ".", "j", "p", "g">> >>
KeyPaths == SeqsUpTo(KeySegs, MaxSegs) \cup {KeyExampleP, KeyExampleE}
urlOfSegs(segs) == KeyHost \o <<"/">> \o join(segs, <<"/">>)
KeyInputs == {urlOfSegs(segs) : segs \in KeyPaths}

KeyInit ==
    /\ kpc = "idle"
    /\ keyIn = <<>>
    /\ keyOut = <<>>

\* one call extractProductKeyFromUrl(u)
ExtractKey ==
    /\ kpc = "idle"
    /\ \E u \in KeyInputs :
        /\ keyIn' = u
        /\ keyOut' = extractProductKeyFromUrl(u)
    /\ kpc' = "done"
    /\ UNCHANGED <<normVars, finalVars, clusterVars, selectVars, hammingVars, seedVars, scoreVars, clipVars, genVars, previewVars, tab>>

(***************************************************************************)
(* Inputs of the hash comparison: 64-bit hashes of one or two digit values *)
(***************************************************************************)
HashInputs ==
    {[i \in 1..HashLen |-> IF i <= k THEN d ELSE e] :
        d \in {"0", "5", "a", "F"}, e \in {"0", "5", "a", "F"}, k \in {0, 5, HashLen}}

HammingInit ==
    /\ hpc = "idle"
    /\ hamIn = <<>>
    /\ hamOut = <<>>

\* the calls hamming(a, b), hamming(b, a) and hamming(a, a)
Hamming ==
    /\ hpc = "idle"
    /\ \E a \in HashInputs, b \in HashInputs :
        /\ hamIn' = <<a, b>>
        /\ hamOut' = [ab |-> hamming(a, b), ba |-> hamming(b, a), aa |-> hamming(a, a)]
    /\ hpc' = "done"
    /\ UNCHANGED <<normVars, finalVars, clusterVars, selectVars, keyVars, seedVars, scoreVars, clipVars, genVars, previewVars, tab>>

(***************************************************************************)
(* Inputs of the seeding rules: entries of enriched with every combination *)
(* of the values below, which lie on both sides of each threshold.         *)
(***************************************************************************)
SeedEntries ==
    [fetched : {TRUE},
     dist : {0, 8, 9, 12, 13, 16, 17, 20, 21, 28, 29, 64},
     composite : {0, 449, 450, 499, 500, 549, 550, 599, 600, 699, 700, 1000},
     colorSim : {0, 859, 860, 1000},
     isEditorial : BOOLEAN, looksLikePackshot : BOOLEAN]
    \cup [fetched : {FALSE},
          dist : {0},
          composite : {0, 449, 450, 499, 500, 549, 550, 599, 600, 699, 700, 1000},
          colorSim : {0},
          isEditorial : BOOLEAN, looksLikePackshot : BOOLEAN]

SeedRulesInit ==
    /\ rpc = "idle"
    /\ seedIn = <<>>
    /\ seedOut = <<>>

\* one round of enriched.forEach
SeedOne ==
    /\ rpc = "idle"
    /\ \E e \in SeedEntries :
        /\ seedIn' = e
        /\ seedOut' = [confident |-> confidentRule(e), semi |-> semiRule(e),
                       bucket |-> seedBucket(e),
                       confidentTs |-> confidentRuleTs(e), semiTs |-> semiRuleTs(e)]
    /\ rpc' = "done"
    /\ UNCHANGED <<normVars, finalVars, clusterVars, selectVars, keyVars, hammingVars, scoreVars, clipVars, genVars, previewVars, tab>>

(***************************************************************************)
(* Inputs of the scoring: candidates over the URLs of the model with every *)
(* combination of the origins, alt texts, class lists and areas below.     *)
(***************************************************************************)
ScoreCands ==
    {ImageCandidate(CharsOf[u], o, a, cl, ar) :
        u \in FinalUrls \cup ClusterUrls,
        o \in {"img", "bg", "jsonld", "none"},
        a \in {NoStr, <<"O", "n", " ", "M", "o", "d", "e", "l">>},
        cl \in {NoStr, <<"p", "r", "o", "d", "u", "c", "t", " ", "g", "a", "l", "l", "e", "r", "y">>},
        ar \in {0, 1200000}}

ScoreInit ==
    /\ scpc = "idle"
    /\ scoreIn = <<>>
    /\ scoreArg = <<>>
    /\ scoreOut = <<>>

\* a first call scoreImageCandidate(c); the function assigns nothing to c
ScoreOnce ==
    /\ scpc = "idle"
    /\ \E c \in ScoreCands :
        /\ scoreIn' = c
        /\ scoreArg' = c
        /\ scoreOut' = <<scoreImageCandidate(c)>>
    /\ scpc' = "once"
    /\ UNCHANGED <<normVars, finalVars, clusterVars, selectVars, keyVars, hammingVars, seedVars, clipVars, genVars, previewVars, tab>>

\* a second call, with a candidate equal to the first in every field
ScoreAgain ==
    /\ scpc = "once"
    /\ scoreOut' = Append(scoreOut, scoreImageCandidate(scoreIn))
    /\ scpc' = "twice"
    /\ UNCHANGED <<scoreIn, scoreArg>>
    /\ UNCHANGED <<normVars, finalVars, clusterVars, selectVars, keyVars, hammingVars, seedVars, clipVars, genVars, previewVars, tab>>

(***************************************************************************)
(* Clipper orchestrator (clipper)                                          *)
(***************************************************************************)
\* an optional value is a sequence of length 0 (null, undefined) or 1
None == <<>>
Some(x) == <<x>>

\* a || b on strings, where "" is falsy
orElse(a, b) == IF a # "" THEN a ELSE b
\* a ?? b on optional values
coalesce(a, b) == IF a # None THEN a ELSE b

\* merge(a, b), a and b optional products
merge(a, b) ==
    IF a = None /\ b = None THEN None
    ELSE IF a # None /\ b = None THEN a
    ELSE IF a = None /\ b # None THEN b
    ELSE LET json == a[1]
             dom == b[1]
         IN  Some([title |-> orElse(json.title, dom.title),
                   description |-> orElse(json.description, dom.description),
                   images |-> IF Len(json.images) # 0 THEN json.images ELSE dom.images,
                   retailer |-> orElse(json.retailer, dom.retailer),
                   url |-> orElse(json.url, dom.url),
                   price |-> coalesce(json.price, coalesce(dom.price, None)),
                   currency |-> coalesce(json.currency, coalesce(dom.currency, None)),
                   returnsText |-> orElse(json.returnsText, dom.returnsText),
                   jsonLd |-> json.jsonLd,
                   source |-> "mixed"])

\* what one extractor call does: it returns null or a product, or it throws
Returned(p) == [kind |-> "returns", product |-> p, isError |-> FALSE, text |-> ""]
Threw(isError, text) == [kind |-> "throws", product |-> None, isError |-> isError, text |-> text]
NotCalled == [kind |-> "notCalled", product |-> None, isError |-> FALSE, text |-> ""]

Resolved(ok, product, error) ==
    [settled |-> "resolved", ok |-> ok, product |-> product, error |-> error]
Rejected(e) == [settled |-> "rejected", ok |-> FALSE, product |-> None, error |-> Some(e.text)]

\* clipCurrentDocument without its try/catch
clipCurrentDocument_noCatch(json, dom) ==
    IF json.kind = "throws" THEN Rejected(json)
    ELSE IF dom.kind = "throws" THEN Rejected(dom)
    ELSE LET both == merge(json.product, dom.product)
             product == IF both # None THEN both
                        ELSE IF json.product # None THEN json.product ELSE dom.product
         IN  IF product = None
             THEN Resolved(FALSE, None, Some("No product details found on this page."))
             ELSE Resolved(TRUE, product, None)

\* clipCurrentDocument: json and dom are what the two extractor calls do; the
\* message of a caught value is e.message for an Error and String(e) otherwise
clipCurrentDocument(json, dom) ==
    IF json.kind = "throws" THEN Resolved(FALSE, None, Some(json.text))
    ELSE IF dom.kind = "throws" THEN Resolved(FALSE, None, Some(dom.text))
    ELSE LET both == merge(json.product, dom.product)
             product == IF both # None THEN both
                        ELSE IF json.product # None THEN json.product ELSE dom.product
         IN  IF product = None
             THEN Resolved(FALSE, None, Some("No product details found on this page."))
             ELSE Resolved(TRUE, product, None)

\* the products an extractor may return: with or without title, images and price
ExtractedProducts(source) ==
    {[title |-> t, description |-> "", images |-> i, retailer |-> source, url |-> "https://site.com/shirt",
      price |-> p, currency |-> IF p = None THEN None ELSE Some("EUR"), returnsText |-> "",
      jsonLd |-> IF source = "jsonld" THEN Some("Product") ELSE None, source |-> source] :
        t \in {"", "Shirt"}, i \in {<<>>, <<HatLook>>}, p \in {None, Some(0), Some(10)}}
Throws == {Threw(TRUE, "document is not defined"), Threw(TRUE, ""), Threw(FALSE, "boom")}
JsonOutcomes == {Returned(Some(p)) : p \in ExtractedProducts("jsonld")} \cup {Returned(None)} \cup Throws
DomOutcomes == {Returned(Some(p)) : p \in ExtractedProducts("dom")} \cup {Returned(None)} \cup Throws

ClipInit ==
    /\ clpc = "idle"
    /\ clipIn = <<>>
    /\ clipOut = <<>>

\* one call clipCurrentDocument(); extractFromDom is not reached when
\* extractFromJsonLd throws
Clip ==
    /\ clpc = "idle"
    /\ \E json \in JsonOutcomes :
        \E dom \in IF json.kind = "throws" THEN {NotCalled} ELSE DomOutcomes :
            /\ clipIn' = [json |-> json, dom |-> dom]
            /\ clipOut' = clipCurrentDocument(json, dom)
    /\ clpc' = "done"
    /\ UNCHANGED <<normVars, finalVars, clusterVars, selectVars, keyVars, hammingVars, seedVars, scoreVars, genVars, previewVars, tab>>

(***************************************************************************)
(* Model fallback of the generative calls (functions/aiLogic)              *)
(***************************************************************************)
API_VERSION_ORDER == <<"v1beta", "v1">>

\* String.prototype.trim for blanks
RECURSIVE trimStart(_)
trimStart(s) == IF s # <<>> /\ Head(s) = " " THEN trimStart(Tail(s)) ELSE s
RECURSIVE trimEnd(_)
trimEnd(s) == IF s # <<>> /\ s[Len(s)] = " " THEN trimEnd(SubSeq(s, 1, Len(s) - 1)) ELSE s
trim(s) == trimEnd(trimStart(s))

endsWith(s, pat) == startsAt(s, pat, Len(s) - Len(pat) + 1)

\* \w of a regular expression
isWordChar(c) == isAlnum(c) \/ c = "_"

\* name.replace(/^models\//i, "")
stripModelsPrefix(s) ==
    IF startsAt(toLowerCase(s), <<"m", "o", "d", "e", "l", "s", "/">>, 1) THEN SubSeq(s, 8, Len(s)) ELSE s

\* name.replace(/^projects\/[^/]+\/locations\/[^/]+\/publishers\/google\/models\//i, "")
stripProjectsPrefix(s) ==
    LET segs == split(s, "/")
        low == [i \in 1..Len(segs) |-> toLowerCase(segs[i])]
    IN  IF /\ Len(segs) >= 8
           /\ low[1] = <<"p", "r", "o", "j", "e", "c", "t", "s">> /\ segs[2] # <<>>
           /\ low[3] = <<"l", "o", "c", "a", "t", "i", "o", "n", "s">> /\ segs[4] # <<>>
           /\ low[5] = <<"p", "u", "b", "l", "i", "s", "h", "e", "r", "s">> /\ low[6] = <<"g", "o", "o", "g", "l", "e">> /\ low[7] = <<"m", "o", "d", "e", "l", "s">>
        THEN join(SubSeq(segs, 8, Len(segs)), <<"/">>)
        ELSE s

\* name.match(/^(gemini-[\w.-]*?)-(?:\d+|00[1-9])$/i): the name up to its last dash
\* when only digits follow that dash, <<>> when there is no match
versionedBase(s) ==
    LET dashes == {i \in 1..Len(s) : s[i] = "-"}
        last == CHOOSE i \in dashes : \A j \in dashes : j <= i
    IN  IF /\ startsAt(toLowerCase(s), <<"g", "e", "m", "i", "n", "i", "-">>, 1)
           /\ \A k \in 8..Len(s) : isWordChar(s[k]) \/ s[k] \in {".", "-"}
           /\ last > 7 /\ last < Len(s)
           /\ \A k \in (last + 1)..Len(s) : isDigit(s[k])
        THEN SubSeq(s, 1, last - 1)
        ELSE <<>>

normalizeModelNameForGL(input, kind) ==
    LET name == stripProjectsPrefix(stripModelsPrefix(trim(input)))
    IN  IF trim(input) = <<>>
        THEN IF kind = "image" THEN <<"g", "e", "m", "i", "n", "i", "-", "2", ".", "5", "-", "f", "l", "a", "s", "h", "-", "i", "m", "a", "g", "e", "-", "p", "r", "e", "v", "i", "e", "w">> ELSE <<"g", "e", "m", "i", "n", "i", "-", "1", ".", "5", "-", "f", "l", "a", "s", "h">>
        ELSE IF versionedBase(name) # <<>> THEN versionedBase(name) \o <<"-", "l", "a", "t", "e", "s", "t">>
        ELSE name

\* `${normalized}-latest`.replace(/-latest-latest$/i, "-latest")
withLatest(n) ==
    LET s == n \o <<"-", "l", "a", "t", "e", "s", "t">>
    IN  IF endsWith(toLowerCase(s), <<"-", "l", "a", "t", "e", "s", "t", "-", "l", "a", "t", "e", "s", "t">>)
        THEN SubSeq(s, 1, Len(s) - 14) \o <<"-", "l", "a", "t", "e", "s", "t">>
        ELSE s

\* if (!tryModels.includes(m)) tryModels.push(m)
pushNew(list, x) == IF x \in Range(list) THEN list ELSE Append(list, x)

\* tryModels of a call
tryModelsOf(requestedModel, kind) ==
    LET normalized == normalizeModelNameForGL(requestedModel, kind)
        first == IF endsWith(toLowerCase(normalized), <<"l", "a", "t", "e", "s", "t">>)
                 THEN <<normalized>>
                 ELSE <<normalized, withLatest(normalized)>>
    IN  IF kind = "text"
        THEN pushNew(pushNew(first, <<"g", "e", "m", "i", "n", "i", "-", "1", ".", "5", "-", "f", "l", "a", "s", "h", "-", "l", "a", "t", "e", "s", "t">>), <<"g", "e", "m", "i", "n", "i", "-", "1", ".", "5", "-", "f", "l", "a", "s", "h">>)
        ELSE pushNew(pushNew(first, <<"g", "e", "m", "i", "n", "i", "-", "2", ".", "5", "-", "f", "l", "a", "s", "h", "-", "i", "m", "a", "g", "e", "-", "p", "r", "e", "v", "i", "e", "w">>), <<"g", "e", "m", "i", "n", "i", "-", "1", ".", "5", "-", "f", "l", "a", "s", "h">>)

\* /not[_\- ]found/.test(msg) || /\b404\b/.test(msg), msg in lower case
isNotFoundModelError(message) ==
    LET msg == toLowerCase(message)
    IN  \/ \E sep \in {"_", "-", " "} : includes(msg, <<"n", "o", "t">> \o <<sep>> \o <<"f", "o", "u", "n", "d">>)
        \/ \E i \in 1..Len(msg) :
              /\ startsAt(msg, <<"4", "0", "4">>, i)
              /\ i = 1 \/ ~isWordChar(msg[i - 1])
              /\ i + 3 > Len(msg) \/ ~isWordChar(msg[i + 3])

\* a loop that goes on to the next model after every error
abandonsVersion_never(message) == FALSE

\* if (!nf) break: an error that is not a not-found error ends the loop over the
\* models of the version
abandonsVersion(message) == ~isNotFoundModelError(message)

\* the calls of the model: no name, a plain name, a name with models/ and blanks, a
\* name with a version suffix, a name that ends in latest, and the default name
GenRequests ==
    {<<>>, <<"g", "e", "m", "i", "n", "i", "-", "2", ".", "0", "-", "f", "l", "a", "s", "h">>, <<" ", "m", "o", "d", "e", "l", "s", "/", "g", "e", "m", "i", "n", "i", "-", "2", ".", "0", "-", "p", "r", "o", " ">>, <<"g", "e", "m", "i", "n", "i", "-", "1", ".", "5", "-", "p", "r", "o", "-", "0", "0", "2">>,
     <<"g", "e", "m", "i", "n", "i", "-", "1", ".", "5", "-", "f", "l", "a", "s", "h", "-", "l", "a", "t", "e", "s", "t">>, <<"g", "e", "m", "i", "n", "i", "-", "1", ".", "5", "-", "f", "l", "a", "s", "h">>,
     <<"p", "r", "o", "j", "e", "c", "t", "s", "/", "p", "1", "/", "l", "o", "c", "a", "t", "i", "o", "n", "s", "/", "u", "s", "/", "p", "u", "b", "l", "i", "s", "h", "e", "r", "s", "/", "g", "o", "o", "g", "l", "e", "/", "m", "o", "d", "e", "l", "s", "/", "g", "e", "m", "i", "n", "i", "-", "1", ".", "5", "-", "f", "l", "a", "s", "h", "-", "8", "b">>}

\* the ways postJson fails: the messages of the errors it throws
GenErrors ==
    {<<"G", "e", "m", "i", "n", "i", " ", "A", "P", "I", " ", "4", "0", "4", ":", " ", "n", "o", " ", "s", "u", "c", "h", " ", "m", "o", "d", "e", "l">>, <<"G", "e", "m", "i", "n", "i", " ", "A", "P", "I", " ", "4", "0", "0", ":", " ", "m", "o", "d", "e", "l", " ", "N", "O", "T", "_", "F", "O", "U", "N", "D">>,
     <<"G", "e", "m", "i", "n", "i", " ", "A", "P", "I", " ", "5", "0", "0", ":", " ", "i", "n", "t", "e", "r", "n", "a", "l">>, <<"G", "e", "m", "i", "n", "i", " ", "A", "P", "I", " ", "4", "2", "9", ":", " ", "r", "e", "q", "u", "e", "s", "t", " ", "1", "4", "0", "4", "0", " ", "t", "h", "r", "o", "t", "t", "l", "e", "d">>}

GenInit ==
    /\ gpc = "idle"
    /\ gRequested = [model |-> <<>>, kind |-> "text"]
    /\ gModels = <<>>
    /\ gApi = 1
    /\ gModel = 1
    /\ gTried = <<>>
    /\ gEnd = <<>>

\* generateContentWithFallback is called: ensureKey, then tryModels is built
GenCall ==
    /\ gpc = "idle"
    /\ \E requested \in GenRequests, kind \in {"text", "image"}, keySet \in BOOLEAN :
        /\ gRequested' = [model |-> requested, kind |-> kind]
        /\ IF keySet
           THEN /\ gModels' = tryModelsOf(requested, kind)
                /\ gpc' = "trying"
                /\ gEnd' = gEnd
           ELSE /\ gModels' = gModels
                /\ gpc' = "threw"
                /\ gEnd' = [attempt |-> 0, message |-> <<"G", "E", "M", "I", "N", "I", "_", "A", "P", "I", "_", "K", "E", "Y", " ", "i", "s", " ", "n", "o", "t", " ", "s", "e", "t">>]
    /\ UNCHANGED <<gApi, gModel, gTried>>
    /\ UNCHANGED <<normVars, finalVars, clusterVars, selectVars, keyVars, hammingVars, seedVars, scoreVars, clipVars, previewVars, tab>>

\* postJson of the current model and version settles: with a response, which is
\* returned, or with an error, after which the loops go on or the last error is
\* thrown
GenAttempt ==
    /\ gpc = "trying"
    /\ \E outcome \in {<<>>} \cup GenErrors :
        LET n == Len(gTried) + 1
            failed == outcome # <<>>
            nextInVersion == failed /\ ~abandonsVersion(outcome) /\ gModel < Len(gModels)
            over == failed /\ ~nextInVersion /\ gApi = Len(API_VERSION_ORDER)
        IN  /\ gTried' = Append(gTried, [api |-> API_VERSION_ORDER[gApi],
                                         model |-> gModels[gModel],
                                         error |-> outcome])
            /\ gApi' = IF failed /\ ~nextInVersion /\ ~over THEN gApi + 1 ELSE gApi
            /\ gModel' = IF ~failed \/ over THEN gModel
                         ELSE IF nextInVersion THEN gModel + 1 ELSE 1
            /\ gpc' = IF ~failed THEN "returned" ELSE IF over THEN "threw" ELSE "trying"
            /\ gEnd' = IF ~failed
                       THEN [resp |-> n, modelUsed |-> gModels[gModel],
                             apiVersionUsed |-> API_VERSION_ORDER[gApi],
                             modelRequested |-> gRequested.model]
                       ELSE IF over THEN [attempt |-> n, message |-> outcome]
                       ELSE gEnd
    /\ UNCHANGED <<gRequested, gModels>>
    /\ UNCHANGED <<normVars, finalVars, clusterVars, selectVars, keyVars, hammingVars, seedVars, scoreVars, clipVars, previewVars, tab>>

(***************************************************************************)
(* Look previews of the side panel (sidepanel/App.tsx)                     *)
(***************************************************************************)

MaxLooks == 4

\* the ids of the looks of a list, pairwise different
LookIds == [k \in 1..MaxLooks |-> <<"look", k - 1>>]

slots_three == 2 + 1

\* const slots = 2
slots == 2

\* what cloudRenderLookPreview settles with: a data URL of an image, no data URL,
\* a data URL of something else, or a rejection
RenderOutcomes ==
    {[ok |-> TRUE, dataUrl |-> <<"d", "a", "t", "a", ":", "i", "m", "a", "g", "e", "/", "p", "n", "g", ";", "b", "a", "s", "e", "6", "4", ",", "i", "V", "B", "O", "R">>],
     [ok |-> TRUE, dataUrl |-> <<>>],
     [ok |-> TRUE, dataUrl |-> <<"d", "a", "t", "a", ":", "t", "e", "x", "t", "/", "h", "t", "m", "l", ",", "x">>],
     [ok |-> FALSE, error |-> "Error: aiLogic renderLook 500"]}

\* dataUrl && /^data:image\//.test(dataUrl)
validDataUrl(dataUrl) == dataUrl # <<>> /\ startsAt(dataUrl, <<"d", "a", "t", "a", ":", "i", "m", "a", "g", "e", "/">>, 1)

\* the preview state renderOneLook sets when the cloud call has settled
previewOf(outcome) ==
    IF ~outcome.ok THEN [status |-> "error", error |-> outcome.error]
    ELSE IF ~validDataUrl(outcome.dataUrl)
    THEN [status |-> "error",
          error |-> "Error: Empty or invalid data URL returned by aiLogic renderLook"]
    ELSE [status |-> "done", url |-> outcome.dataUrl]

\* setPreviewMap((m) => ({ ...m, [id]: preview }))
withPreview(map, id, preview) ==
    [k \in DOMAIN map \cup {id} |-> IF k = id THEN preview ELSE map[k]]

RECURSIVE markLoading(_, _)
\* for (const l of looks) next[l.id] = { status: "loading" }
markLoading(map, ids) ==
    IF ids = <<>> THEN map
    ELSE markLoading(withPreview(map, Head(ids), [status |-> "loading"]), Tail(ids))

PreviewInit ==
    /\ pvpc = "idle"
    /\ looks = <<>>
    /\ nextLook = 0
    /\ workers = <<>>
    /\ previewMap = <<>>
    /\ previewNote = ""
    /\ rendered = <<>>
    /\ previewLog = [id \in Range(LookIds) |-> <<>>]

\* renderLookPreviews is called (onCompose calls it with a list that is not empty,
\* after it has emptied previewMap and previewNote) and awaits loadMannequin
RenderLookPreviews ==
    /\ pvpc = "idle"
    /\ \E n \in 1..MaxLooks : looks' = SubSeq(LookIds, 1, n)
    /\ previewNote' = "Rendering previews..."
    /\ pvpc' = "mannequin"
    /\ UNCHANGED <<nextLook, workers, previewMap, rendered, previewLog>>
    /\ UNCHANGED <<normVars, finalVars, clusterVars, selectVars, keyVars, hammingVars, seedVars, scoreVars, clipVars, genVars, tab>>

\* loadMannequin rejects: the note says so and the function returns
MannequinFails ==
    /\ pvpc = "mannequin"
    /\ previewNote' = "Could not load mannequin image."
    /\ pvpc' = "failed"
    /\ UNCHANGED <<looks, nextLook, workers, previewMap, rendered, previewLog>>
    /\ UNCHANGED <<normVars, finalVars, clusterVars, selectVars, keyVars, hammingVars, seedVars, scoreVars, clipVars, genVars, tab>>

\* loadMannequin resolves: every look is marked loading, and each of the
\* Math.min(slots, looks.length) workers runs up to its first await, so it takes
\* the look at the shared index and calls renderOneLook, in worker order
MannequinLoads ==
    /\ pvpc = "mannequin"
    /\ LET n == Min(slots, Len(looks)) IN
        /\ previewMap' = markLoading(previewMap, looks)
        /\ previewLog' = [id \in DOMAIN previewLog |->
                             IF id \in Range(looks) THEN Append(previewLog[id], "loading")
                             ELSE previewLog[id]]
        /\ workers' = [w \in 1..n |-> [at |-> "render", look |-> w - 1]]
        /\ rendered' = [w \in 1..n |-> [look |-> looks[w], worker |-> w]]
        /\ nextLook' = n
    /\ pvpc' = "rendering"
    /\ UNCHANGED <<looks, previewNote>>
    /\ UNCHANGED <<normVars, finalVars, clusterVars, selectVars, keyVars, hammingVars, seedVars, scoreVars, clipVars, genVars, tab>>

\* the cloud call of worker w settles: renderOneLook sets the preview of its look
\* to done or to error and returns
RenderSettles(w) ==
    /\ pvpc = "rendering"
    /\ workers[w].at = "render"
    /\ \E outcome \in RenderOutcomes :
        LET id == looks[workers[w].look + 1]
            preview == previewOf(outcome)
        IN  /\ previewMap' = withPreview(previewMap, id, preview)
            /\ previewLog' = [previewLog EXCEPT ![id] = Append(@, preview.status)]
    /\ workers' = [workers EXCEPT ![w].at = "resume"]
    /\ UNCHANGED <<pvpc, looks, nextLook, previewNote, rendered>>
    /\ UNCHANGED <<normVars, finalVars, clusterVars, selectVars, keyVars, hammingVars, seedVars, scoreVars, clipVars, genVars, tab>>

\* worker w goes on after await renderOneLook: while (i < looks.length) it takes
\* looks[i++] and calls renderOneLook, otherwise it ends
WorkerResumes(w) ==
    /\ pvpc = "rendering"
    /\ workers[w].at = "resume"
    /\ IF nextLook < Len(looks)
       THEN /\ workers' = [workers EXCEPT ![w] = [at |-> "render", look |-> nextLook]]
            /\ nextLook' = nextLook + 1
            /\ rendered' = Append(rendered, [look |-> looks[nextLook + 1], worker |-> w])
       ELSE /\ workers' = [workers EXCEPT ![w].at = "end"]
            /\ UNCHANGED <<nextLook, rendered>>
    /\ UNCHANGED <<pvpc, looks, previewMap, previewNote, previewLog>>
    /\ UNCHANGED <<normVars, finalVars, clusterVars, selectVars, keyVars, hammingVars, seedVars, scoreVars, clipVars, genVars, tab>>

\* await Promise.all(workers) is over: the note is cleared
WorkersJoined ==
    /\ pvpc = "rendering"
    /\ \A w \in DOMAIN workers : workers[w].at = "end"
    /\ previewNote' = ""
    /\ pvpc' = "cleared"
    /\ UNCHANGED <<looks, nextLook, workers, previewMap, rendered, previewLog>>
    /\ UNCHANGED <<normVars, finalVars, clusterVars, selectVars, keyVars, hammingVars, seedVars, scoreVars, clipVars, genVars, tab>>

Init == ScoreInit /\ ClipInit /\ GenInit /\ PreviewInit /\ TabInit /\ KeyInit /\ HammingInit /\ SeedRulesInit /\ NormInit /\ FinalInit /\ ClusterInit /\ SelectInit

NormNext == Normalize

FinalNext == Finalize \/ FinalizeAgain

ClusterNext == SelectPrimary

SpecNorm == Init /\ [][NormNext]_vars

SpecFinal == Init /\ [][FinalNext]_vars

SpecCluster == Init /\ [][ClusterNext]_vars

KeyNext == ExtractKey

SpecKey == Init /\ [][KeyNext]_vars

HammingNext == Hamming

SpecHamming == Init /\ [][HammingNext]_vars

SeedNext == SeedOne

SpecSeed == Init /\ [][SeedNext]_vars

ScoreNext == ScoreOnce \/ ScoreAgain

SpecScore == Init /\ [][ScoreNext]_vars

ClipNext == Clip

SpecClip == Init /\ [][ClipNext]_vars

GenNext == GenCall \/ GenAttempt

SpecGen == Init /\ [][GenNext]_vars

PreviewNext ==
    \/ RenderLookPreviews
    \/ MannequinFails
    \/ MannequinLoads
    \/ \E w \in DOMAIN workers : RenderSettles(w)
    \/ \E w \in DOMAIN workers : WorkerResumes(w)
    \/ WorkersJoined

SpecPreview == Init /\ [][PreviewNext]_vars

SelectNext ==
    \/ Receive
    \/ AnchorFetched
    \/ IssueCandidateFetches
    \/ CandidateFetched
    \/ Seed
    \/ ClassifierReplies
    \/ ClassifierFails

SpecSelect == Init /\ [][SelectNext]_vars

\* the classifier call settles: ClassifierReplies and ClassifierFails are enabled
\* exactly while spc = "classify" and each of them leaves that phase, so weak
\* fairness of the call is that the phase is always left again
ClassifierSettles == []<>(spc # "classify")

\* the steps of the operation itself are taken when they can be, and the classifier
\* call settles; fetch(u) is called without a signal or a timeout, so nothing makes
\* a pending image fetch settle
SelectFairness ==
    /\ WF_vars(IssueCandidateFetches)
    /\ WF_vars(Seed)
    /\ ClassifierSettles

SpecSelectLive == Init /\ [][SelectNext]_vars /\ SelectFairness

(***************************************************************************)
(* Properties                                                              *)
(***************************************************************************)
\* the non-dropped (name, value) pairs of a URL, in order
keptPairsOf(u) == SelectSeq(searchParams(ParseURL(u).search), LAMBDA p : ~dropped(p))

\* the candidates of the finalize call that share the de-duplication key of URL u
sameKey(u) == {j \in 1..Len(fCands) : dedupeKey(fCands[j].url) = dedupeKey(u)}

\* the first candidate of greatest score among those sharing the key of u
bestOfKey(u) ==
    CHOOSE j \in sameKey(u) :
        /\ \A k \in sameKey(u) : scoreOf(fCands[k]) <= scoreOf(fCands[j])
        /\ \A k \in sameKey(u) : scoreOf(fCands[k]) = scoreOf(fCands[j]) => j <= k

finalKeys == {dedupeKey(fCands[j].url) : j \in 1..Len(fCands)}

\* the call of selectProductImages as the properties see it
sDone == spc = "done"
sCandUrls == Range(sPayload.candidates)
sUsedAnchors == {sPayload.anchors[i] : i \in 1..Min(3, Len(sPayload.anchors))}
sBucket(b) == Range(sReturn.groups[b])
sOutUrls == UNION {sBucket(b) : b \in Buckets}
sSeeded(b) == Range(sGroups[b])
noRepeat(s) == \A i, j \in 1..Len(s) : i # j => s[i] # s[j]

\* C1: the returned buckets are a partition of the distinct candidate URLs: they are
\* pairwise disjoint, no bucket repeats a URL, and their union is the set of
\* candidate URLs, for every candidate list, fetch outcome and classifier outcome.
C1_Partition ==
    sDone =>
        /\ sOutUrls = sCandUrls
        /\ \A b \in Buckets : noRepeat(sReturn.groups[b])
        /\ \A b1, b2 \in Buckets : b1 # b2 => sBucket(b1) \cap sBucket(b2) = {}

\* C2: a URL of the first three anchors that is also a candidate URL is in the
\* returned confident bucket.
C2_AnchorIsConfident ==
    sDone => \A u \in sUsedAnchors \cap sCandUrls : u \in sBucket("confident")

\* an anchor that the seeding and the classifier both put in notConfident was
\* returned in confident
C2_Witness ==
    /\ sDone
    /\ \E u \in sUsedAnchors \cap sCandUrls :
            /\ u \in sSeeded("notConfident")
            /\ u \in Range(sLlm.groups.notConfident)
            /\ u \in sBucket("confident")

\* C3: the returned confident bucket is empty exactly when the candidate list is.
C3_ConfidentNonEmpty ==
    sDone => (sReturn.groups.confident = <<>> <=> sPayload.candidates = <<>>)

\* every candidate was seeded notConfident, none is an anchor and the classifier
\* put none in confident, yet confident was returned non-empty
C3_Witness ==
    /\ sDone
    /\ sPayload.candidates # <<>>
    /\ sSeeded("confident") = {} /\ sSeeded("semiConfident") = {}
    /\ sLlm.groups.confident = <<>> /\ sLlm.groups.semiConfident = <<>>
    /\ sUsedAnchors \cap sCandUrls = {}
    /\ sReturn.groups.confident # <<>>

knownOnly(reply) ==
    [b \in Buckets |-> SelectSeq(reply[b], LAMBDA u : u \in sCandUrls)]

\* C5: no returned URL is a URL that only the classifier's reply names, and what
\* is returned is what the reply without its unknown URLs would have given.
C5_UnknownUrlIgnored ==
    sDone =>
        /\ sOutUrls \subseteq sCandUrls
        /\ sReturn = merged(sGroups, knownOnly(sLlm.groups), sEnriched, sAnchors)

\* the reply named an unknown URL as confident and a candidate in another bucket
C5_Witness ==
    /\ sDone
    /\ sLlm.groups.confident = <<UnknownUrl>>
    /\ \E u \in sCandUrls : u \in Range(sLlm.groups.notConfident)
    /\ UnknownUrl \notin sOutUrls

cUniqAnchors == uniqAnchorsOf(cCands, cAnchors)
cScored == scoreAgainstAnchors(cCands, cUniqAnchors)
cKeys == Range(clusterKeys(cScored))
cAnchorKeys == Range(anchorKeysOf(cUniqAnchors))
cMembers(k) == {i \in 1..Len(cScored) : clusterKeyOf(cScored[i]) = k}
cClusterOfUrl(u) == IF keyOf(u) = NoStr THEN NoKey ELSE keyOf(u)

\* several clusters, exactly one of which has the key of an anchor
cOneAnchorCluster ==
    /\ cpc = "done"
    /\ Cardinality(cKeys) >= 2
    /\ Cardinality(cKeys \cap cAnchorKeys) = 1

cAnchorCluster == CHOOSE k \in cKeys : k \in cAnchorKeys

\* member scores + 400 x anchor similarities + packshot bonus + same-host bonus of a
\* cluster, times SimUnit (the combined score without the anchor-key bonus)
cPlainScore(k) ==
    LET hosts == {hostOf(cUniqAnchors[i]) : i \in 1..Len(cUniqAnchors)}
        RECURSIVE total(_)
        total(S) ==
            IF S = {} THEN 0
            ELSE LET i == CHOOSE x \in S : TRUE
                 IN  (cScored[i].score + (IF cScored[i].host \in hosts THEN 5 ELSE 0)) * SimUnit
                        + 400 * cScored[i].anchorSim + total(S \ {i})
    IN  total(cMembers(k))
          + (IF \E i \in cMembers(k) : packshotUrl(cCands[i].url) THEN 500 * SimUnit ELSE 0)

\* C7 (as claimed): with several clusters of which exactly one has an anchor's key,
\* the returned images are those of the anchor-matching cluster, whatever the
\* member scores and sizes of the other clusters.
C7_AnchorClusterWins ==
    cOneAnchorCluster =>
        /\ cOut # <<>>
        /\ \A i \in 1..Len(cOut) : cClusterOfUrl(cOut[i]) = cAnchorCluster

\* C7 (amended): the anchor-matching cluster is returned when its combined score,
\* which includes the 1500 anchor-key bonus, exceeds the combined score of every
\* other cluster; an unrelated cluster whose combined score exceeds it is
\* returned instead.
C7_AnchorClusterWinsIfBest ==
    cOneAnchorCluster =>
        LET a == cAnchorCluster
            own == cPlainScore(a) + 1500 * SimUnit
        IN  /\ cOut # <<>>
            /\ (\A k \in cKeys \ {a} : own > cPlainScore(k)) =>
                    \A i \in 1..Len(cOut) : cClusterOfUrl(cOut[i]) = a
            /\ (\E k \in cKeys \ {a} : cPlainScore(k) > own) =>
                    \A i \in 1..Len(cOut) : cClusterOfUrl(cOut[i]) # a

\* the anchor-matching cluster was returned although an unrelated cluster has more
\* members and a greater score apart from the anchor-key bonus
C7_Witness ==
    /\ cOneAnchorCluster
    /\ cAnchors # <<>>
    /\ \E k \in cKeys \ {cAnchorCluster} :
            /\ Cardinality(cMembers(k)) > Cardinality(cMembers(cAnchorCluster))
            /\ cPlainScore(k) > cPlainScore(cAnchorCluster)
    /\ \A i \in 1..Len(cOut) : cClusterOfUrl(cOut[i]) = cAnchorCluster

\* C8 (as claimed): finalizeImageCandidates run on the URLs it returned gives the
\* same URLs in the same order.
C8_FixedPoint == fpc = "again" => fAgain = fOut

\* C8 (amended): run again on its own URLs, each as a candidate { url }, with the
\* same cap, finalizeImageCandidates returns the same URLs, each once; they are in
\* descending order of the score of the bare URL, and URLs of equal bare-URL
\* score keep the order of the first result.
C8_SameUrlsReRanked ==
    fpc = "again" =>
        /\ Range(fAgain) = Range(fOut)
        /\ Len(fAgain) = Len(fOut)
        /\ \A i, j \in 1..Len(fAgain) :
              i < j =>
                /\ scoreOf(urlOnly(fAgain[i])) >= scoreOf(urlOnly(fAgain[j]))
                /\ scoreOf(urlOnly(fAgain[i])) = scoreOf(urlOnly(fAgain[j])) =>
                      \E a, b \in 1..Len(fOut) :
                          a < b /\ fOut[a] = fAgain[i] /\ fOut[b] = fAgain[j]

\* the second run re-ranked two URLs that the first run had ordered by alt text or area
C8_Witness ==
    /\ fpc = "again"
    /\ Len(fOut) = 2
    /\ fAgain = <<fOut[2], fOut[1]>>

\* C9: for each normalized key the surviving URL is that of the first candidate of
\* greatest score among the candidates sharing the key; every key has a survivor
\* up to the cap; an empty input returns an empty list.
C9_BestOfKeySurvives ==
    fpc # "idle" =>
        /\ \A i \in 1..Len(fOut) : fOut[i] = fCands[bestOfKey(fOut[i])].url
        /\ \A i, j \in 1..Len(fOut) : i # j => dedupeKey(fOut[i]) # dedupeKey(fOut[j])
        /\ Len(fOut) = Min(fMax, Cardinality(finalKeys))
        /\ fCands = <<>> => fOut = <<>>

\* two different URLs of one key and equal score: the first one survived
C9_Witness ==
    /\ fpc = "done"
    /\ Len(fCands) = 2
    /\ fCands[1].url # fCands[2].url
    /\ dedupeKey(fCands[1].url) = dedupeKey(fCands[2].url)
    /\ scoreOf(fCands[1]) = scoreOf(fCands[2])
    /\ fOut = <<fCands[1].url>>

\* C10: normalizeForDedupe removes only the listed query parameters and the
\* fragment: the path and every other parameter, repeated names included, with
\* their values and order, are the same in the result as in the input.
C10_OtherParamsPreserved ==
    npc = "done" =>
        /\ ParseURL(normOut).base = ParseURL(normIn).base
        /\ ParseURL(normOut).hash = <<>>
        /\ keptPairsOf(normOut) = keptPairsOf(normIn)


\* the path of the URL whose key was extracted, in lower case
kPath == toLowerCase(SubSeq(keyIn, Len(KeyHost) + 1, Len(keyIn)))

\* the runs of six or more digits of the path, as <<first, last>> pairs
kLongRuns ==
    {r \in (1..Len(kPath)) \X (1..Len(kPath)) :
        /\ r[2] - r[1] + 1 >= 6
        /\ \A i \in r[1]..r[2] : kPath[i] \in Digits
        /\ (r[1] = 1 \/ kPath[r[1] - 1] \notin Digits)
        /\ (r[2] = Len(kPath) \/ kPath[r[2] + 1] \notin Digits)}

\* those followed by - or _, the single letter p or e, and a separator or the end
kSkuRuns ==
    {r \in kLongRuns :
        /\ r[2] + 2 <= Len(kPath)
        /\ kPath[r[2] + 1] \in {"-", "_"}
        /\ kPath[r[2] + 2] \in {"p", "e"}
        /\ (r[2] + 2 = Len(kPath) \/ kPath[r[2] + 3] \in Separators)}

\* the non-empty segments of the path, as <<first, last>> pairs
kSegments ==
    {r \in (1..Len(kPath)) \X (1..Len(kPath)) :
        /\ r[1] <= r[2]
        /\ \A i \in r[1]..r[2] : kPath[i] # "/"
        /\ (r[1] = 1 \/ kPath[r[1] - 1] = "/")
        /\ (r[2] = Len(kPath) \/ kPath[r[2] + 1] = "/")}

kText(r) == SubSeq(kPath, r[1], r[2])
kLastSegment == CHOOSE r \in kSegments : \A q \in kSegments : q[1] <= r[1]
kPrevSegments == kSegments \ {kLastSegment}
kPrevSegment == CHOOSE r \in kPrevSegments : \A q \in kPrevSegments : q[1] <= r[1]

\* the last two segments without their extensions, joined by a colon; a segment
\* that is nothing but an extension is left out
kLastTwo ==
    LET last == stripExtension(kText(kLastSegment))
        prev == IF kPrevSegments = {} THEN <<>> ELSE stripExtension(kText(kPrevSegment))
    IN  IF prev = <<>> THEN last
        ELSE IF last = <<>> THEN prev
        ELSE prev \o <<":">> \o last

\* C11: the key is the first digit run of six or more digits that a p/e suffix
\* token follows; failing that the longest run of six or more digits, the earliest
\* of equal length; failing that the last two path segments without extensions,
\* joined; and null for a path without segments. The two documented retailer URLs
\* both give 06987325409.
C11_KeyFallbackChain ==
    kpc = "done" =>
        /\ kSkuRuns # {} =>
            \E r \in kSkuRuns : keyOut = kText(r) /\ \A q \in kSkuRuns : r[1] <= q[1]
        /\ kSkuRuns = {} /\ kLongRuns # {} =>
            \E r \in kLongRuns :
                /\ keyOut = kText(r)
                /\ \A q \in kLongRuns :
                    \/ q[2] - q[1] < r[2] - r[1]
                    \/ q[2] - q[1] = r[2] - r[1] /\ r[1] <= q[1]
        /\ kLongRuns = {} /\ kSegments # {} => keyOut = kLastTwo
        /\ kSegments = {} => keyOut = NoStr
        /\ keyIn \in {urlOfSegs(KeyExampleP), urlOfSegs(KeyExampleE)} =>
            keyOut = <<"0", "6", "9", "8", "7", "3", "2", "5", "4", "0", "9">>

\* a path with a p/e-suffixed run and a longer plain run: the suffixed run is the key
C11_Witness ==
    /\ kpc = "done"
    /\ keyIn = urlOfSegs(<< <<"1", "2", "3", "4", "5", "6", "7">>, <<"1", "2", "3", "4", "5", "6", "_", "E", ".", "J", "P", "G">> >>)
    /\ keyOut = <<"1", "2", "3", "4", "5", "6">>

\* bit k (0 the highest) of a 64-bit hash
hBit(h, k) == (HexValue[h[(k \div 4) + 1]] \div (2 ^ (3 - (k % 4)))) % 2
hDiffering == {k \in 0..(4 * HashLen - 1) : hBit(hamIn[1], k) # hBit(hamIn[2], k)}

\* C12: hamming is symmetric, zero on identical hashes, and equal to the number of
\* differing bits, which lies between 0 and 64 for 64-bit hashes.
C12_HammingSymmetric ==
    hpc = "done" =>
        /\ hamOut.ab = hamOut.ba
        /\ hamOut.aa = 0
        /\ hamOut.ab = Cardinality(hDiffering)
        /\ hamOut.ab \in 0..64

\* two hashes that differ in some but not all bits
C12_Witness ==
    /\ hpc = "done"
    /\ hamIn[1] # hamIn[2]
    /\ hamOut.ab \in 1..63

\* C13: the image fetches of one call that are in flight at the same time stay under
\* a cap that does not grow with the request: a request of the largest size of the
\* model never has all its fetches in flight at once.
C13_FetchesCapped ==
    Len(sPayload.candidates) = MaxCandidates => Cardinality(sPending) < MaxCandidates

\* C14: every request is eventually answered, whatever the image fetches do.
C14_EventuallyReturns == (spc # "idle") ~> (spc = "done")

\* the entries of enriched whose fetch gave no image
sFailed == {i \in DOMAIN sEnriched : ~sEnriched[i].fetched}
defaultComposite(url) ==
    compositeOf(FALSE, 0, 0, tab.arHint[url], tab.packshotHint[url], tab.editorial[url])

\* C15: whichever fetches fail, the call returns, every candidate URL is in exactly
\* one returned bucket, and a candidate whose fetch failed is scored without a
\* distance and with colour similarity 0.
C15_FailuresTolerated ==
    /\ \A i \in sFailed :
        /\ distOr64(sEnriched[i]) = 64
        /\ sEnriched[i].colorSim = 0
        /\ sEnriched[i].composite = defaultComposite(sEnriched[i].url)
    /\ sDone =>
        /\ \A u \in sCandUrls : Cardinality({b \in Buckets : u \in sBucket(b)}) = 1
        /\ sOutUrls \subseteq sCandUrls

\* the same without the requirement that the buckets are disjoint
C15_FailuresKeepCandidates ==
    /\ \A i \in sFailed :
        /\ distOr64(sEnriched[i]) = 64
        /\ sEnriched[i].colorSim = 0
        /\ sEnriched[i].composite = defaultComposite(sEnriched[i].url)
    /\ sDone =>
        /\ \A u \in sCandUrls : \E b \in Buckets : u \in sBucket(b)
        /\ sOutUrls \subseteq sCandUrls

\* C16: an entry that satisfies the confident rule satisfies the semi-confident
\* rule, for every distance, composite, colour similarity, editorial flag and
\* packshot flag, in the compiled function and in its TypeScript source.
C16_ConfidentTighter ==
    rpc = "done" =>
        /\ seedOut.confident => seedOut.semi
        /\ seedOut.confidentTs => seedOut.semiTs

\* an entry that the second disjunct of the confident rule accepts
C16_Witness ==
    /\ rpc = "done"
    /\ seedOut.confident
    /\ seedOut.bucket = "confident"
    /\ seedIn.dist = 20
    /\ seedIn.composite = 550

\* C17: selectPrimaryProductImages returns at most max URLs, for every max, 0 included.
C17_AtMostMax == cpc = "done" => Len(cOut) <= cMax

\* the same for a max of at least 1
C17_AtMostMaxFromOne == cpc = "done" /\ cMax >= 1 => Len(cOut) <= cMax

clipThrew == clipIn.json.kind = "throws" \/ clipIn.dom.kind = "throws"
clipFound == clipIn.json.product # None \/ clipIn.dom.product # None

\* C19: the promise of clipCurrentDocument is never rejected; it resolves to ok:true
\* with a product and no error when no extractor throws and at least one returns a
\* product, and to ok:false with an error message and no product when both return
\* null or one throws.
C19_ClipNeverRejects ==
    clpc = "done" =>
        /\ clipOut.settled = "resolved"
        /\ ~clipThrew /\ clipFound =>
            clipOut.ok /\ clipOut.product # None /\ clipOut.error = None
        /\ clipThrew \/ ~clipFound =>
            ~clipOut.ok /\ clipOut.product = None /\ clipOut.error # None

\* extractFromJsonLd returned a product and extractFromDom threw
C19_Witness ==
    /\ clpc = "done"
    /\ clipIn.json.product # None
    /\ clipIn.dom.kind = "throws"
    /\ ~clipOut.ok

\* the buckets as they are when the auto-promotion step begins
sPre(b) == Range(beforePromotion(sGroups, sLlm.groups, sEnriched, sAnchors)[b])
sPromoted == Range(sReturn.autoPromoted)
\* u ranks strictly above v: greater composite, or equal composite and smaller distance
sAbove(u, v) ==
    LET eu == lastOf(sEnriched, u)
        ev == lastOf(sEnriched, v)
    IN  \/ eu.composite > ev.composite
        \/ eu.composite = ev.composite /\ distOr64(eu) < distOr64(ev)
sPromotionSource == IF sPre("semiConfident") # {} THEN sPre("semiConfident") ELSE sCandUrls

\* C20: with confident not empty after merge and anchor forcing nothing is promoted
\* and no URL changes bucket; with confident empty exactly min(2, k) URLs are moved
\* into confident, top-ranked ones of semiConfident (k its size) or, when that is
\* empty, of all candidates, and every other URL stays where it was.
C20_AutoPromotion ==
    sDone =>
        /\ sPre("confident") # {} =>
            /\ sReturn.autoPromoted = <<>>
            /\ \A b \in Buckets : sBucket(b) = sPre(b)
        /\ sPre("confident") = {} =>
            /\ noRepeat(sReturn.autoPromoted)
            /\ sPromoted \subseteq sPromotionSource
            /\ Cardinality(sPromoted) = Min(2, Cardinality(sPromotionSource))
            /\ \A u \in sPromoted, v \in sPromotionSource \ sPromoted : ~sAbove(v, u)
            /\ sBucket("confident") = sPromoted
            /\ sBucket("semiConfident") = sPre("semiConfident") \ sPromoted
            /\ sBucket("notConfident") = sPre("notConfident") \ sPromoted

\* three URLs in semiConfident and none in confident: two were promoted
C20_Witness ==
    /\ sDone
    /\ sPre("confident") = {}
    /\ Cardinality(sPre("semiConfident")) = 3
    /\ Cardinality(sPromoted) = 2
    /\ Cardinality(sBucket("semiConfident")) = 1

\* no URL in confident or semiConfident, three candidates: two were promoted
C20_WitnessAll ==
    /\ sDone
    /\ sPre("confident") = {}
    /\ sPre("semiConfident") = {}
    /\ Cardinality(sCandUrls) = 3
    /\ Cardinality(sPromoted) = 2

\* what candidate i's entry must be, given only its own fetch outcome and the
\* anchor features
sExpected(i) == enrich(sPayload.candidates[i], sEnriched[i].fetched, sAnchorFeatures)

\* C21: in whatever order the candidate fetches settle, the entry in slot i of
\* enriched is the one computed from candidate i, its own fetch outcome and the
\* anchor features; once all have settled there is one entry per candidate, in
\* candidate order, the seeded groups are computed from these entries, and at the
\* end so are the returned groups.
C21_OrderIndependent ==
    /\ DOMAIN sEnriched \subseteq 1..Len(sPayload.candidates)
    /\ \A i \in DOMAIN sEnriched : sEnriched[i] = sExpected(i)
    /\ spc \in {"classify", "done"} =>
        /\ DOMAIN sEnriched = 1..Len(sPayload.candidates)
        /\ sGroups = seedGroups(sEnriched)
    /\ sDone => sReturn = merged(sGroups, sLlm.groups, sEnriched, sAnchors)

\* the fetch of the second of two different candidates has settled, the first is
\* still pending
C21_Witness ==
    /\ spc = "candidates"
    /\ Len(sPayload.candidates) = 2
    /\ sPayload.candidates[1] # sPayload.candidates[2]
    /\ DOMAIN sEnriched = {2}
    /\ sPending = {1}


\* the combined score of a cluster, times SimUnit
cFullScore(k) == cPlainScore(k) + (IF k \in cAnchorKeys THEN 1500 * SimUnit ELSE 0)
\* the place of a cluster in the order in which the clusters were built
cBuilt(k) == CHOOSE i \in cMembers(k) : \A j \in cMembers(k) : i <= j
\* the cluster of the returned URLs (of the first one)
cOutCluster == cClusterOfUrl(cOut[1])
cReturned == cpc = "done" /\ cOut # <<>>

\* C22: the returned URLs are URLs of input candidates, all of one extracted
\* product key or all of none, and their cluster has the maximal combined score,
\* the first-built cluster of that score being the one returned.
C22_SingleBestCluster ==
    cReturned =>
        /\ \A i \in 1..Len(cOut) : \E j \in 1..Len(cCands) : cCands[j].url = cOut[i]
        /\ \A i, j \in 1..Len(cOut) : keyOf(cOut[i]) = keyOf(cOut[j])
        /\ \A k \in cKeys : cFullScore(k) <= cFullScore(cOutCluster)
        /\ \A k \in cKeys : cFullScore(k) = cFullScore(cOutCluster) => cBuilt(cOutCluster) <= cBuilt(k)

\* what remains true: the returned URLs are URLs of input candidates of one entry
\* of the Map clusters, the first-built entry of maximal combined score
C22_SingleBestMapEntry ==
    cReturned =>
        /\ \A i \in 1..Len(cOut) : \E j \in 1..Len(cCands) : cCands[j].url = cOut[i]
        /\ \A i \in 1..Len(cOut) : cClusterOfUrl(cOut[i]) = cOutCluster
        /\ \A k \in cKeys : cFullScore(k) <= cFullScore(cOutCluster)
        /\ \A k \in cKeys : cFullScore(k) = cFullScore(cOutCluster) => cBuilt(cOutCluster) <= cBuilt(k)


\* candidate a ranks strictly before candidate b: higher anchor similarity, or the
\* same and a higher score
cRankBefore(a, b) ==
    \/ cScored[a].anchorSim > cScored[b].anchorSim
    \/ cScored[a].anchorSim = cScored[b].anchorSim /\ cScored[a].score > cScored[b].score
\* the candidates of the returned cluster whose URL has the dedup key of u
cSameKey(u) == {b \in cMembers(cOutCluster) : dedupeKey(cCands[b].url) = dedupeKey(u)}

\* C23: no two returned URLs have the same dedup key, and a returned URL is that
\* of a candidate of the chosen cluster before which no candidate of the cluster
\* with the same dedup key ranks.
C23_DedupKeepsFirstRanked ==
    cpc = "done" =>
        /\ \A i, j \in 1..Len(cOut) : i # j => dedupeKey(cOut[i]) # dedupeKey(cOut[j])
        /\ \A i \in 1..Len(cOut) :
              \E a \in cSameKey(cOut[i]) :
                  /\ cCands[a].url = cOut[i]
                  /\ \A b \in cSameKey(cOut[i]) : ~cRankBefore(b, a)

\* the chosen cluster has two candidates of different URLs and one dedup key, one
\* ranking before the other, and the cap would have let both through
C23_Witness ==
    /\ cReturned
    /\ cMax > Len(cOut)
    /\ \E a, b \in cSameKey(cOut[1]) :
          /\ cCands[a].url = cOut[1]
          /\ cCands[b].url # cOut[1]
          /\ cRankBefore(a, b)


\* C24: in each returned bucket a URL never comes after one that it ranks above:
\* the composites (those scoreMap holds for the URLs) do not increase along the
\* bucket, and among equal composites the distances, 64 for a candidate without
\* one, do not decrease.
C24_BucketsSorted ==
    sDone =>
        \A b \in Buckets :
            \A i, j \in 1..Len(sReturn.groups[b]) :
                i < j => ~sAbove(sReturn.groups[b][j], sReturn.groups[b][i])

\* a returned bucket holds two URLs of equal composite and different distance,
\* which the seeding had put the other way round
C24_Witness ==
    /\ sDone
    /\ \E b \in Buckets :
          /\ Len(sReturn.groups[b]) = 2
          /\ LET u == sReturn.groups[b][1]
                 v == sReturn.groups[b][2]
             IN  /\ lastOf(sEnriched, u).composite = lastOf(sEnriched, v).composite
                 /\ distOr64(lastOf(sEnriched, u)) < distOr64(lastOf(sEnriched, v))
                 /\ sPayload.candidates = <<v, u>>


\* the candidate that stands for a returned URL: of the candidates of the chosen
\* cluster with that URL, one before which none of them ranks
cBest(u) ==
    CHOOSE a \in cMembers(cOutCluster) :
        /\ cCands[a].url = u
        /\ \A b \in cMembers(cOutCluster) : cCands[b].url = u => ~cRankBefore(b, a)

\* C25: along the returned list the anchor similarity does not increase, and among
\* equal anchor similarities the score does not increase.
C25_OutputOrdered ==
    cpc = "done" =>
        \A i, j \in 1..Len(cOut) :
            i < j => ~cRankBefore(cBest(cOut[j]), cBest(cOut[i]))

\* two URLs were returned, the first of greater anchor similarity and smaller score,
\* and the candidates had come in the opposite order
C25_Witness ==
    /\ cpc = "done"
    /\ Len(cOut) = 2
    /\ Len(cCands) = 2
    /\ cCands[1].url = cOut[2]
    /\ cCands[2].url = cOut[1]
    /\ cScored[2].anchorSim > cScored[1].anchorSim
    /\ cScored[2].score < cScored[1].score

\* two URLs of equal anchor similarity were returned, the one of greater score
\* first, and the candidates had come in the opposite order
C25_WitnessTie ==
    /\ cpc = "done"
    /\ Len(cOut) = 2
    /\ Len(cCands) = 2
    /\ cCands[1].url = cOut[2]
    /\ cCands[2].url = cOut[1]
    /\ cScored[2].anchorSim = cScored[1].anchorSim
    /\ cScored[2].score > cScored[1].score


\* the URLs the classifier's reply lists in some bucket
sMentioned == UNION {Range(sLlm.groups[b]) : b \in Buckets}
sReplied == sDone /\ ~sLlm.failed

\* C26: after a reply, a candidate URL that the reply lists nowhere, that is no used
\* anchor and that was not auto-promoted is returned in exactly the buckets the
\* seeding gave it; and a URL is returned in semiConfident only if the seeding or
\* the reply put it there, so the default has moved nothing.
C26_UnmentionedStays ==
    sReplied =>
        /\ \A u \in sCandUrls \ (sMentioned \cup sUsedAnchors \cup sPromoted) :
              \A b \in Buckets : u \in sBucket(b) <=> u \in sSeeded(b)
        /\ \A u \in sBucket("semiConfident") :
              u \in sSeeded("semiConfident") \/ u \in Range(sLlm.groups.semiConfident)

\* the reply moved one candidate, and another one, which it does not list, was
\* returned in the notConfident bucket of the seeding
C26_Witness ==
    /\ sReplied
    /\ \E u \in sCandUrls \cap sMentioned : \E b \in Buckets : u \in sBucket(b) /\ u \notin sSeeded(b)
    /\ \E u \in sCandUrls \ (sMentioned \cup sUsedAnchors \cup sPromoted) :
          /\ u \in sSeeded("notConfident")
          /\ u \in sBucket("notConfident")
          /\ u \notin sBucket("semiConfident")


\* the buckets in which the reply lists u, and the least confident of them
sListedIn(u) == {b \in Buckets : u \in Range(sLlm.groups[b])}
sLeastListed(u) ==
    IF "notConfident" \in sListedIn(u) THEN "notConfident"
    ELSE IF "semiConfident" \in sListedIn(u) THEN "semiConfident"
    ELSE "confident"

\* C27: a candidate URL that the reply lists in more than one bucket, that is no
\* used anchor and that was not auto-promoted is returned in one bucket only, the
\* least confident of those in which the reply lists it.
C27_LeastConfidentWins ==
    sReplied =>
        \A u \in sCandUrls \ (sUsedAnchors \cup sPromoted) :
            Cardinality(sListedIn(u)) >= 2 =>
                \A b \in Buckets : u \in sBucket(b) <=> b = sLeastListed(u)

\* the reply listed a candidate as confident and as notConfident, the seeding had
\* it in confident, and it was returned in notConfident
C27_Witness ==
    /\ sReplied
    /\ \E u \in sCandUrls \ (sUsedAnchors \cup sPromoted) :
          /\ sListedIn(u) = {"confident", "notConfident"}
          /\ u \in sSeeded("confident")
          /\ u \in sBucket("notConfident")
          /\ u \notin sBucket("confident")


\* the keyed clusters with a packshot-suffix member, and their relaxed scores
cPackshotKeyed == {k \in cKeys \ {NoKey} : \E i \in cMembers(k) : packshotUrl(cCands[i].url)}
cRelaxedScore(k) == relaxedScore(clusterOf(cScored, k))
\* the no-key cluster exists and no cluster has a greater combined score
cNoKeyIsMax == NoKey \in cKeys /\ \A k \in cKeys : cFullScore(k) <= cFullScore(NoKey)
\* the scoring loop chose the no-key cluster: it is the first-built of the maximal
cNoKeyIsBest ==
    /\ cNoKeyIsMax
    /\ \A k \in cKeys : cFullScore(k) = cFullScore(NoKey) => cBuilt(NoKey) <= cBuilt(k)

C28_TieBehind == cpc = "done" /\ cNoKeyIsMax /\ ~cNoKeyIsBest


\* the call of generateContentWithFallback as the properties see it
gVersionIndex(a) == IF a = "v1beta" THEN 1 ELSE IF a = "v1" THEN 2 ELSE 0
gModelIndex(x) == CHOOSE i \in 1..Len(gModels) : gModels[i] = x
gFailed(k) == gTried[k].error # <<>>
gNotFound(k) == gFailed(k) /\ isNotFoundModelError(gTried[k].error)
gLastOfVersion(k) == gModelIndex(gTried[k].model) = Len(gModels)
gAttempted == gpc # "idle" /\ gTried # <<>>

\* C29: the first attempt is the first model with v1beta; only the last attempt can
\* succeed; after a not-found error the next attempt is the next model of the same
\* version, and after any other error, or after the last model, it is the first
\* model of the next version; there are at most versions x models attempts; the
\* call returns the response, model and version of the attempt that succeeded; it
\* throws, after a failure that leaves nothing to try in v1, the error of that
\* last attempt.
C29_FallbackOrder ==
    gAttempted =>
        LET n == Len(gTried) IN
        /\ noRepeat(gModels)
        /\ gTried[1].api = "v1beta" /\ gTried[1].model = gModels[1]
        /\ \A k \in 1..(n - 1) :
              /\ gFailed(k)
              /\ IF gNotFound(k) /\ ~gLastOfVersion(k)
                 THEN /\ gTried[k + 1].api = gTried[k].api
                      /\ gModelIndex(gTried[k + 1].model) = gModelIndex(gTried[k].model) + 1
                 ELSE /\ gVersionIndex(gTried[k + 1].api) = gVersionIndex(gTried[k].api) + 1
                      /\ gTried[k + 1].model = gModels[1]
        /\ \A k \in 1..n : gVersionIndex(gTried[k].api) \in {1, 2} /\ gTried[k].model \in Range(gModels)
        /\ n <= 2 * Len(gModels)
        /\ gpc = "trying" => gFailed(n)
        /\ gpc = "returned" <=> ~gFailed(n)
        /\ gpc = "returned" =>
              gEnd = [resp |-> n, modelUsed |-> gTried[n].model, apiVersionUsed |-> gTried[n].api,
                      modelRequested |-> gRequested.model]
        /\ gpc = "threw" <=>
              /\ gFailed(n)
              /\ gTried[n].api = "v1"
              /\ ~gNotFound(n) \/ gLastOfVersion(n)
        /\ gpc = "threw" => gEnd = [attempt |-> n, message |-> gTried[n].error]

\* a call that threw after a not-found error had moved it to the next model of
\* v1beta and another error had made it leave v1beta with models still untried
C29_Witness ==
    /\ gAttempted
    /\ gpc = "threw"
    /\ \E k \in 1..(Len(gTried) - 1) : gNotFound(k) /\ gTried[k + 1].api = "v1beta"
    /\ \E k \in 1..(Len(gTried) - 1) :
          /\ ~gNotFound(k) /\ ~gLastOfVersion(k)
          /\ gTried[k].api = "v1beta" /\ gTried[k + 1].api = "v1"

\* a call that returned at the last possible attempt: four models, two versions
C29_WitnessLast ==
    /\ gpc = "returned"
    /\ Len(gModels) = 4
    /\ Len(gTried) = 8


\* the call of renderLookPreviews as the properties see it
pvInFlight == {w \in DOMAIN workers : workers[w].at = "render"}
pvTimesRendered(id) == Cardinality({k \in 1..Len(rendered) : rendered[k].look = id})
pvSettled(id) ==
    /\ id \in DOMAIN previewMap
    /\ previewMap[id].status \in {"done", "error"}
pvAllRenderedOnce ==
    /\ \A id \in Range(looks) : pvTimesRendered(id) = 1 /\ pvSettled(id)
    /\ pvInFlight = {}
\* what holds at every moment of a call: at most two renders in flight, on
\* different looks; no look rendered twice, none outside the list; a look's preview
\* states are loading and then done or error, the last of them being the one shown,
\* and a look shows done or error exactly when its render has settled
pvRendersInOrder ==
    /\ Cardinality(pvInFlight) <= 2
    /\ \A v, w \in pvInFlight : v # w => workers[v].look # workers[w].look
    /\ \A k \in 1..Len(rendered) : rendered[k].look = looks[k]
    /\ Len(rendered) = nextLook /\ nextLook <= Len(looks)
    /\ \A id \in Range(LookIds) :
          LET log == previewLog[id] IN
          /\ Len(log) <= 2
          /\ Len(log) >= 1 => log[1] = "loading" /\ id \in Range(looks)
          /\ Len(log) = 2 => log[2] \in {"done", "error"} /\ pvTimesRendered(id) = 1
          /\ Len(log) = 2 => \A w \in pvInFlight : looks[workers[w].look + 1] # id
          /\ IF log = <<>> THEN id \notin DOMAIN previewMap
             ELSE id \in DOMAIN previewMap /\ previewMap[id].status = log[Len(log)]
    /\ \A w \in pvInFlight : previewLog[looks[workers[w].look + 1]] = <<"loading">>

\* C30 as stated: whenever renderLookPreviews has returned, every look of the list
\* was rendered exactly once and shows done or error; at most two renders are in
\* flight at any time; each look's preview state goes from loading to done or
\* error; the progress note is cleared only after all renders have finished.
C30_EveryLookOnce ==
    /\ pvRendersInOrder
    /\ pvpc \in {"cleared", "failed"} => pvAllRenderedOnce
    /\ pvpc # "idle" /\ previewNote = "" => pvpc = "cleared" /\ pvAllRenderedOnce

\* C30, amended: the same when the mannequin image has loaded; when it has not,
\* renderLookPreviews returns with the note that says so, no look rendered and
\* previewMap as it was.
C30_EveryLookOnceIfMannequin ==
    /\ pvRendersInOrder
    /\ pvpc = "cleared" => pvAllRenderedOnce /\ previewNote = ""
    /\ pvpc # "idle" /\ previewNote = "" => pvpc = "cleared" /\ pvAllRenderedOnce
    /\ pvpc = "failed" =>
          /\ rendered = <<>>
          /\ previewMap = <<>>
          /\ previewNote = "Could not load mannequin image."

\* four looks rendered and the note cleared, one worker having rendered three of
\* them while the other held one, with a preview done and a preview in error
C30_Witness ==
    /\ pvpc = "cleared"
    /\ Len(looks) = 4
    /\ \E w \in DOMAIN workers :
          Cardinality({k \in 1..Len(rendered) : rendered[k].worker = w}) = 3
    /\ \E a, b \in Range(looks) :
          previewMap[a].status = "done" /\ previewMap[b].status = "error"

\* two renders in flight while two looks wait and the note still shows
C30_WitnessInFlight ==
    /\ Cardinality(pvInFlight) = 2
    /\ nextLook < Len(looks)
    /\ previewNote = "Rendering previews..."

\* the mannequin image did not load
C30_WitnessNoMannequin == pvpc = "failed" /\ Len(looks) = 4

====
